---- MODULE Spec2Model ----
(***************************************************************************)
(* The Filesystem Core of owtaylor/organized: the reference-counted file   *)
(* registry (FileSystem, src/src/organized/file_system.py), its change     *)
(* detector, and the WebSocket session layer (Connection and the command   *)
(* handlers, src/src/organized/files.py).                                  *)
(*                                                                         *)
(* The engine is single-threaded asyncio: a command handler runs from the  *)
(* receipt of a message to the send of its reply without giving up the     *)
(* loop before send_json is called, so one handler is one action.  The     *)
(* file_updated sends are asyncio tasks (asyncio.create_task): they are    *)
(* queued by the fan-out and run later, in creation order.                 *)
(***************************************************************************)
EXTENDS Naturals, Integers, Sequences, FiniteSets, TLC

\* ------------------------------------------------------------------ bounds
\* Latest value of the disk clock (st_mtime ticks).
MaxTime == 2
\* Most send tasks queued and not yet run.
MaxTasks == 2
\* Most raw watcher events pending.
MaxEvents == 1
\* Most open/close commands counted by the balance specification.
MaxOps == 5
\* Most handler steps the loop runs while a created send task waits.
MaxLag == 1
\* Most commits a repository holds.
MaxCommits == 2
\* Most characters of a client path.
MaxPathLen == 5
\* Most characters of a file of the command specification.
MaxText == 4

\* ------------------------------------------------------------------ inputs
Sessions == {"A", "B"}
Handles == {"h1", "h2"}
\* The handle strings each client picks from.
HandlesOf(s) == IF s = "A" THEN {"h1", "h2"} ELSE {"h1"}
\* Working-tree name and the committed name of the same file.
WorkName == "p"
CommittedName == "@p"
Names == {WorkName, CommittedName}
\* Paths of the working tree that can hold a file.
DiskPaths == {"p", "@p"}

\* Text is a sequence of characters.
Empty == << >>
TextAB == <<"a", "b">>
TextCB == <<"c", "b">>
TextAD == <<"a", "d">>
\* Contents a client sends as last_content / new_content.
Texts == {TextAB, TextCB}
\* Contents an external process writes into a file a client is editing.
ExtTexts == {TextAD}

NoHandle == "-"
NoSource == << >>

VARIABLES
    files,          \* FileSystem.files: name -> File(content, ref_count, mtime)
    watchers,       \* FileSystem.watchers: list of connections
    disk,           \* working tree: path -> [exists, content, mtime]
    now,            \* disk clock: the mtime the latest write got
    git,            \* blob of path p at HEAD: [exists, content]
    conn,           \* session -> "new" | "open" | "closed"
    open_handles,   \* Connection.open_handles: session -> (handle -> name)
    file_handles,   \* Connection.file_handles: session -> (name -> set of handles)
    tasks,          \* pending _send_file_updated tasks, in creation order
    events,         \* raw watcher events not yet handled: set of <<kind, path>>
    emitted,        \* frames put on transports by the latest step, in order
    lag,            \* handler steps run since the oldest waiting task was created
    opens,          \* successful open_file commands counted (balance specification)
    closes,         \* successful close_file commands counted (balance specification)
    repo,           \* the repository under .git: [HEAD, refs, tree]
    head,           \* FileSystem._current_head_commit and _current_ref_file
    validated,      \* a client path and what _normalize_and_validate_path made of it
    atomic,         \* the running _write_file_atomic: its position, temp file, caller
    watching,       \* the _watch_files task of watch_files is running
    last_sent       \* session -> (handle -> content of the latest frame sent for it)

vars == <<files, watchers, disk, now, git, conn, open_handles, file_handles,
          tasks, events, emitted, lag, opens, closes, repo, head,
          validated, atomic, watching, last_sent>>

\* ----------------------------------------------------------------- helpers
EmptyMap == [x \in {} |-> 0]

Put(f, k, v) == [x \in (DOMAIN f) \cup {k} |-> IF x = k THEN v ELSE f[x]]

Del(f, k) == [x \in (DOMAIN f) \ {k} |-> f[x]]

\* Every order in which the elements of a set can be iterated.
RECURSIVE Orders(_)
Orders(S) ==
    IF S = {} THEN {<< >>}
    ELSE UNION {{<<x>> \o r : r \in Orders(S \ {x})} : x \in S}


\* ------------------------------------------------------- diff_match_patch
\* The character-level diff/patch library the Merger calls.  A patch is the
\* single hunk left after the common prefix and suffix of the two texts are
\* set aside; it applies when the text it deletes stands at the hunk's offset
\* in the target, and is discarded otherwise.
RECURSIVE CommonPrefix(_, _)
CommonPrefix(a, b) ==
    IF a = << >> \/ b = << >> \/ Head(a) # Head(b) THEN 0
    ELSE 1 + CommonPrefix(Tail(a), Tail(b))

RECURSIVE CommonSuffix(_, _)
CommonSuffix(a, b) ==
    IF a = << >> \/ b = << >> \/ a[Len(a)] # b[Len(b)] THEN 0
    ELSE 1 + CommonSuffix(SubSeq(a, 1, Len(a) - 1), SubSeq(b, 1, Len(b) - 1))

patch_make(text1, text2) ==
    LET k  == CommonPrefix(text1, text2)
        r1 == SubSeq(text1, k + 1, Len(text1))
        r2 == SubSeq(text2, k + 1, Len(text2))
        j  == CommonSuffix(r1, r2)
    IN  [start |-> k,
         del   |-> SubSeq(r1, 1, Len(r1) - j),
         ins   |-> SubSeq(r2, 1, Len(r2) - j)]

patch_apply(patch, text) ==
    IF patch.del = << >> /\ patch.ins = << >> THEN text
    ELSE IF patch.start + Len(patch.del) <= Len(text)
            /\ SubSeq(text, patch.start + 1, patch.start + Len(patch.del)) = patch.del
         THEN SubSeq(text, 1, patch.start) \o patch.ins
              \o SubSeq(text, patch.start + Len(patch.del) + 1, Len(text))
         ELSE text

\* ---------------------------------------------------------- path validator
\* Strings are sequences of characters.
PathChars == {"a", ".", "/"}

\* The paths a client can send.
ClientPaths == UNION {[1..n -> PathChars] : n \in 0..MaxPathLen}

startswith(str, prefix) ==
    Len(str) >= Len(prefix) /\ SubSeq(str, 1, Len(prefix)) = prefix

\* str.split(sep)
RECURSIVE split(_, _)
split(str, sep) ==
    IF \A i \in DOMAIN str : str[i] # sep THEN <<str>>
    ELSE LET k == CHOOSE i \in DOMAIN str :
                      str[i] = sep /\ \A j \in 1..(i - 1) : str[j] # sep
         IN  <<SubSeq(str, 1, k - 1)>> \o split(SubSeq(str, k + 1, Len(str)), sep)

\* sep.join(parts)
RECURSIVE join(_, _)
join(parts, sep) ==
    IF parts = << >> THEN << >>
    ELSE IF Len(parts) = 1 THEN parts[1]
    ELSE parts[1] \o <<sep>> \o join(Tail(parts), sep)

Dot == <<".">>
DotDot == <<".", ".">>

\* The leading slashes POSIX keeps: two when the string starts with exactly
\* two, one when it starts with one or with three or more.
LeadingSlashes(str) ==
    IF startswith(str, <<"/", "/">>) /\ ~startswith(str, <<"/", "/", "/">>)
    THEN <<"/", "/">>
    ELSE IF startswith(str, <<"/">>) THEN <<"/">> ELSE << >>

\* The loop of posixpath.normpath over the components.
RECURSIVE new_comps(_, _, _)
new_comps(comps, acc, initial_slashes) ==
    IF comps = << >> THEN acc
    ELSE LET comp == Head(comps)
             acc2 == IF comp = << >> \/ comp = Dot THEN acc
                     ELSE IF \/ comp # DotDot
                             \/ (initial_slashes = << >> /\ acc = << >>)
                             \/ (acc # << >> /\ acc[Len(acc)] = DotDot)
                     THEN Append(acc, comp)
                     ELSE IF acc # << >> THEN SubSeq(acc, 1, Len(acc) - 1)
                     ELSE acc
         IN  new_comps(Tail(comps), acc2, initial_slashes)

\* os.path.normpath
normpath(path) ==
    IF path = << >> THEN Dot
    ELSE LET initial_slashes == LeadingSlashes(path)
             out == initial_slashes
                    \o join(new_comps(split(path, "/"), << >>, initial_slashes), "/")
         IN  IF out = << >> THEN Dot ELSE out

\* pathlib.Path(str): [root, names]; empty and "." components are dropped,
\* ".." components are kept.
Path(str) ==
    [root |-> LeadingSlashes(str),
     names |-> SelectSeq(split(str, "/"), LAMBDA x : x # << >> /\ x # Dot)]

\* str(path)
PathStr(path) ==
    LET out == path.root \o join(path.names, "/")
    IN  IF out = << >> THEN Dot ELSE out

\* path.parts
parts(path) ==
    IF path.root = << >> THEN path.names ELSE <<path.root>> \o path.names

is_absolute(path) == path.root # << >>

Rejected(error) == [done |-> TRUE, ok |-> FALSE, error |-> error, under |-> << >>]

\* A path that was not yet validated.
NotValidated(filename) ==
    [filename |-> filename,
     result |-> [done |-> FALSE, ok |-> FALSE, error |-> "", under |-> << >>]]

\* _normalize_and_validate_path: [done, ok, error, under]; under is the
\* components of the returned path below repository_path.
_normalize_and_validate_path(filename) ==
    LET path == Path(filename)
        normalized_path == Path(normpath(filename))
    IN  IF PathStr(path) # PathStr(normalized_path) THEN Rejected("not normalized")
        ELSE IF \E i \in DOMAIN parts(path) : parts(path)[i] \in {Dot, DotDot}
        THEN Rejected("dot components")
        ELSE IF is_absolute(path) THEN Rejected("absolute")
        ELSE [done |-> TRUE, ok |-> TRUE, error |-> "", under |-> path.names]


\* ------------------------------------------------------------- FileSystem
File(content, ref_count, mtime) ==
    [content |-> content, ref_count |-> ref_count, mtime |-> mtime]

NoFile == [exists |-> FALSE, content |-> Empty, mtime |-> 0]

OnDisk(content, mtime) == [exists |-> TRUE, content |-> content, mtime |-> mtime]

\* A client path that climbs out of the repository.
ParentName == "../p"
\* A second spelling of the working-tree name.
AliasName == "./p"

\* The characters of a name.
Spelling(filename) ==
    CASE filename = WorkName -> <<"p">>
      [] filename = CommittedName -> <<"@", "p">>
      [] filename = ParentName -> <<".", ".", "/", "p">>
      [] filename = AliasName -> <<".", "/", "p">>

\* The names clients send.
ClientNames == {WorkName, CommittedName, ParentName, AliasName}

_is_committed_file_path(filename) == startswith(Spelling(filename), <<"@">>)

\* filename[1:]
_extract_git_file_path(filename) == Tail(Spelling(filename))

\* The file of the working tree that repository_path / Path(filename) names,
\* for a filename the validator accepts.
AbsolutePaths ==
    [filename \in {n \in ClientNames : _normalize_and_validate_path(Spelling(n)).ok} |->
        LET under == _normalize_and_validate_path(Spelling(filename)).under
        IN  CHOOSE path \in DiskPaths : Spelling(path) = join(under, "/")]

\* AbsolutePaths, written out name by name: "./p" is the file "p", every other
\* accepted name is its own file.
absolute_path(filename) == IF filename = AliasName THEN WorkName ELSE filename

\* What the validator makes of the path open_file hands it: the name, or the
\* name without its "@".
OpenChecks ==
    [filename \in ClientNames |->
        _normalize_and_validate_path(IF _is_committed_file_path(filename)
                                     THEN _extract_git_file_path(filename)
                                     ELSE Spelling(filename))]

\* OpenChecks, written out name by name: only "../p" is refused.
path_refused(filename) == filename = ParentName

\* The two written-out tables are the validator's results.
PathTables ==
    \A filename \in ClientNames :
        /\ path_refused(filename) = ~OpenChecks[filename].ok
        /\ filename \in DOMAIN AbsolutePaths
               => absolute_path(filename) = AbsolutePaths[filename]

\* git cat-file blob HEAD:p
_read_file_from_git(gt) ==
    IF gt.exists THEN [ok |-> TRUE, content |-> gt.content]
    ELSE [ok |-> FALSE, content |-> Empty]

\* An open that counts only the first holder of an entry.
open_file_once(fs, dsk, gt, filename) ==
    IF filename \in DOMAIN fs
    THEN [ok |-> TRUE, files |-> fs, content |-> fs[filename].content, error |-> ""]
    ELSE IF ~dsk[filename].exists
    THEN [ok |-> FALSE, files |-> fs, content |-> Empty, error |-> "FileNotFoundError"]
    ELSE [ok |-> TRUE,
          files |-> Put(fs, filename, File(dsk[filename].content, 1, dsk[filename].mtime)),
          content |-> dsk[filename].content, error |-> ""]

\* open_file: [ok, files, content, error]; ok = FALSE is the ValueError of
\* the validator or FileNotFoundError.
open_file(fs, dsk, gt, filename) ==
    IF path_refused(filename)
    THEN [ok |-> FALSE, files |-> fs, content |-> Empty, error |-> "ValueError"]
    ELSE IF filename \in DOMAIN fs
    THEN LET fs2 == [fs EXCEPT ![filename].ref_count = @ + 1]
         IN  [ok |-> TRUE, files |-> fs2, content |-> fs2[filename].content,
              error |-> ""]
    ELSE IF _is_committed_file_path(filename)
    THEN LET blob == _read_file_from_git(gt)
         IN  IF blob.ok
             THEN [ok |-> TRUE, files |-> Put(fs, filename, File(blob.content, 1, 0)),
                   content |-> blob.content, error |-> ""]
             ELSE [ok |-> FALSE, files |-> fs, content |-> Empty,
                   error |-> "FileNotFoundError"]
    ELSE LET file_path == absolute_path(filename)
         IN  IF ~dsk[file_path].exists
             THEN [ok |-> FALSE, files |-> fs, content |-> Empty,
                   error |-> "FileNotFoundError"]
             ELSE [ok |-> TRUE,
                   files |-> Put(fs, filename, File(dsk[file_path].content, 1,
                                                    dsk[file_path].mtime)),
                   content |-> dsk[file_path].content, error |-> ""]

\* A close that decrements and keeps the entry.
close_file_keeps(fs, filename) ==
    IF filename \in DOMAIN fs
    THEN [fs EXCEPT ![filename].ref_count = @ - 1]
    ELSE fs

close_file(fs, filename) ==
    IF filename \in DOMAIN fs
    THEN IF fs[filename].ref_count - 1 <= 0
         THEN Del(fs, filename)
         ELSE [fs EXCEPT ![filename].ref_count = @ - 1]
    ELSE fs

\* A merge that lets the client's text win.
_merge_content_takes_new(current_content, last_content, new_content, raises) ==
    new_content

\* A merger that hands back the client's content when the library raises.
_merge_content_keeps_new(current_content, last_content, new_content, raises) ==
    IF raises THEN new_content
    ELSE patch_apply(patch_make(last_content, new_content), current_content)

\* _merge_content: the patches last -> new applied to current; current when
\* the library raises.
_merge_content(current_content, last_content, new_content, raises) ==
    IF raises THEN current_content
    ELSE patch_apply(patch_make(last_content, new_content), current_content)

\* An atomic write that reports success and leaves the target as it was.
_write_file_atomic_lost(dsk, file_path, content, t, fails) ==
    [ok |-> TRUE, disk |-> dsk, mtime |-> t]

\* _write_file_atomic: [ok, disk, mtime]; on failure the temporary file is
\* unlinked and the target keeps its pre-image.
_write_file_atomic(dsk, file_path, content, t, fails) ==
    IF fails THEN [ok |-> FALSE, disk |-> dsk, mtime |-> 0]
    ELSE [ok |-> TRUE, disk |-> [dsk EXCEPT ![file_path] = OnDisk(content, t)],
          mtime |-> t]

\* The raw event the watcher raises for a write of path.
WriteEvent(dsk, path) ==
    IF dsk[path].exists THEN <<"modified", path>> ELSE <<"added", path>>


\* The steps of _write_file_atomic as another process sees them.  The
\* directory of the target is the working tree dsk and the temporary file
\* temp; each step gives [disk, temp].
\* tempfile.mkstemp: an empty sibling of the target.
mkstemp(dsk, temp, t) == [disk |-> dsk, temp |-> OnDisk(Empty, t)]

\* A writer that writes the target itself instead of the temporary file.
temp_file_write_in_place(dsk, temp, file_path, content, t) ==
    LET text == SubSeq(content, 1, Len(temp.content) + 1)
    IN  [disk |-> [dsk EXCEPT ![file_path] = OnDisk(text, t)],
         temp |-> OnDisk(text, t)]

\* temp_file.write / flush: the next character of content reaches the
\* temporary file.
temp_file_write(dsk, temp, file_path, content, t) ==
    [disk |-> dsk, temp |-> OnDisk(SubSeq(content, 1, Len(temp.content) + 1), t)]

\* os.rename(temp_path, file_path): the target is replaced in one step.
os_rename(dsk, temp, file_path) ==
    [disk |-> [dsk EXCEPT ![file_path] = temp], temp |-> NoFile]

\* A clean-up that leaves the temporary file.
os_unlink_skipped(dsk, temp) == [disk |-> dsk, temp |-> temp]

\* os.unlink(temp_path)
os_unlink(dsk, temp) == [disk |-> dsk, temp |-> NoFile]

\* What another process has read of the target: nothing yet.
NotRead == [read |-> FALSE, exists |-> FALSE, content |-> Empty]

NoCaller == [kind |-> "none", s |-> "A", last_content |-> Empty, content |-> Empty]

\* No _write_file_atomic is running.
NotWriting ==
    [pc |-> "idle", caller |-> NoCaller, file_path |-> WorkName, content |-> Empty,
     temp |-> NoFile, mtime |-> 0, raised |-> "", pre |-> NoFile, seen |-> NotRead]


\* ---------------------------------------------------------------- fan-out
\* The event loop as the handlers see it: the queue of created tasks and the
\* frames sent so far in the running step.
IO(tq, out) == [tasks |-> tq, emitted |-> out]

\* A frame on the transport of session `to`.  reply is history: for a
\* file_updated caused by a client's write, whether that write's file_written
\* reply had been sent ("sent"), had failed ("failed") or was still to be sent
\* ("pending") when the frame was sent; "none" for every other frame.
Frame(to, type, handle, content, msg) ==
    [to |-> to, type |-> type, handle |-> handle, content |-> content,
     msg |-> msg, reply |-> "none"]

SendTask(s, handle, content, src) ==
    [conn |-> s, handle |-> handle, content |-> content,
     reply |-> IF src = NoSource THEN "none" ELSE "pending"]

UpdateFrame(t) ==
    [to |-> t.conn, type |-> "file_updated", handle |-> t.handle,
     content |-> t.content, msg |-> "", reply |-> t.reply]

\* A send that runs at once instead of being queued.
create_task_runs_now(io, t) == [io EXCEPT !.emitted = Append(@, UpdateFrame(t))]

\* asyncio.create_task(self._send_file_updated(handle, content)): the send
\* is queued, not run.
create_task(io, t) == [io EXCEPT !.tasks = Append(@, t)]

HandlesOn(fh, s, filename) ==
    IF filename \in DOMAIN fh[s] THEN fh[s][filename] ELSE {}

RECURSIVE ForEachHandle(_, _, _, _, _, _)
ForEachHandle(io, s, order, content, source_handle, src) ==
    IF order = << >> THEN io
    ELSE LET handle == Head(order)
             io2 == IF handle # source_handle
                    THEN create_task(io, SendTask(s, handle, content, src))
                    ELSE io
         IN  ForEachHandle(io2, s, Tail(order), content, source_handle, src)

\* A fan-out that does not leave out the source handle.
on_file_change_to_all(io, fh, s, filename, content, source_handle, src, order) ==
    IF filename \in DOMAIN fh[s]
    THEN ForEachHandle(io, s, order, content, NoHandle, src)
    ELSE io

\* Connection.on_file_change; order is the order in which the set
\* file_handles[filename] is iterated, src the write the change comes from.
on_file_change(io, fh, s, filename, content, source_handle, src, order) ==
    IF filename \in DOMAIN fh[s]
    THEN ForEachHandle(io, s, order, content, source_handle, src)
    ELSE io

\* FileSystem._notify_watchers over the list ws; source is <<watcher, handle>>
\* or NoSource; ord gives each watcher's iteration order.
RECURSIVE _notify_watchers(_, _, _, _, _, _, _)
_notify_watchers(io, ws, fh, filename, content, source, ord) ==
    IF ws = << >> THEN io
    ELSE LET watcher == Head(ws)
             io2 == IF source # NoSource /\ watcher = source[1]
                    THEN on_file_change(io, fh, watcher, filename, content,
                                        source[2], source, ord[watcher])
                    ELSE on_file_change(io, fh, watcher, filename, content,
                                        NoHandle, source, ord[watcher])
         IN  _notify_watchers(io2, Tail(ws), fh, filename, content, source, ord)

NoOrder == [s \in Sessions |-> << >>]

\* The iteration orders a fan-out for filename can take.
IterationOrders(fh, filename) ==
    {[s \in Sessions |-> IF s = "A" THEN a ELSE b] :
        a \in Orders(HandlesOn(fh, "A", filename)),
        b \in Orders(HandlesOn(fh, "B", filename))}

\* A write that opens the file and never closes it again.
write_file_keeps_open(fs, dsk, gt, ws, fh, io, filename, last_content, content, source, ord, t, ioFails, dmpRaises) ==
    LET o == open_file(fs, dsk, gt, filename)
        opened == o.ok
        current_content == IF opened THEN o.content ELSE Empty
        new_content == IF last_content = current_content THEN content
                       ELSE _merge_content(current_content, last_content, content, dmpRaises)
        w == _write_file_atomic(dsk, absolute_path(filename), new_content, t, ioFails)
        fs2 == IF w.ok /\ opened
               THEN [o.files EXCEPT ![filename].content = new_content,
                                    ![filename].mtime = w.mtime]
               ELSE o.files
    IN  IF w.ok
        THEN [ok |-> TRUE, files |-> fs2, disk |-> w.disk,
              io |-> _notify_watchers(io, ws, fh, filename, new_content, source, ord),
              content |-> new_content]
        ELSE [ok |-> FALSE, files |-> fs2, disk |-> dsk, io |-> io, content |-> Empty]

\* FileSystem.write_file: [ok, files, disk, io, content]; ok = FALSE is the
\* OSError of the atomic write.  The names a handle holds passed the
\* validator when they were opened, and pass it again here.
write_file(fs, dsk, gt, ws, fh, io, filename, last_content, content, source, ord, t, ioFails, dmpRaises) ==
    LET o == open_file(fs, dsk, gt, filename)
        opened == o.ok
        current_content == IF opened THEN o.content ELSE Empty
        new_content == IF last_content = current_content THEN content
                       ELSE _merge_content(current_content, last_content, content, dmpRaises)
        w == _write_file_atomic(dsk, absolute_path(filename), new_content, t, ioFails)
        fs2 == IF w.ok /\ opened
               THEN [o.files EXCEPT ![filename].content = new_content,
                                    ![filename].mtime = w.mtime]
               ELSE o.files
        fs3 == IF opened THEN close_file(fs2, filename) ELSE fs2
    IN  IF w.ok
        THEN [ok |-> TRUE, files |-> fs3, disk |-> w.disk,
              io |-> _notify_watchers(io, ws, fh, filename, new_content, source, ord),
              content |-> new_content]
        ELSE [ok |-> FALSE, files |-> fs3, disk |-> dsk, io |-> io, content |-> Empty]

\* An edit that does not record the mtime of the file it wrote.
edit_file_forgets_mtime(fs, dsk, gt, ws, fh, io, filename, new_content, ord, t, ioFails) ==
    LET o == open_file(fs, dsk, gt, filename)
        w == _write_file_atomic(dsk, absolute_path(filename), new_content, t, ioFails)
    IN  IF ~o.ok \/ ~w.ok THEN [ok |-> FALSE, files |-> fs, disk |-> dsk, io |-> io]
        ELSE [ok |-> TRUE,
              files |-> close_file([o.files EXCEPT ![filename].content = new_content],
                                   filename),
              disk |-> w.disk,
              io |-> _notify_watchers(io, ws, fh, filename, new_content, NoSource, ord)]

\* What stands for new_content when edit_function raises.
Raised == <<"!">>

\* An edit that writes the file and leaves the cached content as it was.
edit_file_keeps_cache(fs, dsk, gt, ws, fh, io, filename, new_content, ord, t, ioFails) ==
    LET o == open_file(fs, dsk, gt, filename)
        w == _write_file_atomic(dsk, absolute_path(filename), new_content, t, ioFails)
    IN  IF ~o.ok THEN [ok |-> FALSE, files |-> fs, disk |-> dsk, io |-> io]
        ELSE IF new_content = Raised \/ ~w.ok
        THEN [ok |-> FALSE, files |-> close_file(o.files, filename), disk |-> dsk,
              io |-> io]
        ELSE [ok |-> TRUE,
              files |-> close_file([o.files EXCEPT ![filename].mtime = w.mtime],
                                   filename),
              disk |-> w.disk,
              io |-> _notify_watchers(io, ws, fh, filename, new_content, NoSource, ord)]

\* FileSystem.edit_file with new_content = edit_function(content), or Raised
\* when edit_function raises: [ok, files, disk, io]; ok = FALSE is the
\* FileNotFoundError of open_file, the exception of edit_function or the
\* OSError of the atomic write.
edit_file(fs, dsk, gt, ws, fh, io, filename, new_content, ord, t, ioFails) ==
    LET o == open_file(fs, dsk, gt, filename)
        w == _write_file_atomic(dsk, absolute_path(filename), new_content, t, ioFails)
    IN  IF ~o.ok THEN [ok |-> FALSE, files |-> fs, disk |-> dsk, io |-> io]
        ELSE IF new_content = Raised \/ ~w.ok
        THEN [ok |-> FALSE, files |-> close_file(o.files, filename), disk |-> dsk,
              io |-> io]
        ELSE [ok |-> TRUE,
              files |-> close_file([o.files EXCEPT ![filename].content = new_content,
                                                   ![filename].mtime = w.mtime],
                                   filename),
              disk |-> w.disk,
              io |-> _notify_watchers(io, ws, fh, filename, new_content, NoSource, ord)]


\* ------------------------------------------------------------- Connection
\* An open that records the handle before it opens the file.
Connection_open_file_tracks_first(fs, dsk, gt, oh, fh, filename, handle) ==
    IF handle \in DOMAIN oh
    THEN [ok |-> FALSE, files |-> fs, oh |-> oh, fh |-> fh, content |-> Empty,
          msg |-> "HandleInUse"]
    ELSE LET o == open_file(fs, dsk, gt, filename)
             oh2 == Put(oh, handle, filename)
             fh2 == Put(fh, filename,
                        (IF filename \in DOMAIN fh THEN fh[filename] ELSE {})
                            \cup {handle})
         IN  [ok |-> o.ok, files |-> o.files, oh |-> oh2, fh |-> fh2,
              content |-> o.content, msg |-> o.error]

\* An open that does not look whether the handle string is in use.
Connection_open_file_reuses(fs, dsk, gt, oh, fh, filename, handle) ==
    LET o == open_file(fs, dsk, gt, filename)
    IN  IF ~o.ok
        THEN [ok |-> FALSE, files |-> fs, oh |-> oh, fh |-> fh,
              content |-> Empty, msg |-> o.error]
        ELSE [ok |-> TRUE, files |-> o.files,
              oh |-> Put(oh, handle, filename),
              fh |-> Put(fh, filename,
                         (IF filename \in DOMAIN fh THEN fh[filename] ELSE {})
                             \cup {handle}),
              content |-> o.content, msg |-> ""]

\* Connection.open_file: [ok, files, oh, fh, content, msg].
Connection_open_file(fs, dsk, gt, oh, fh, filename, handle) ==
    IF handle \in DOMAIN oh
    THEN [ok |-> FALSE, files |-> fs, oh |-> oh, fh |-> fh, content |-> Empty,
          msg |-> "HandleInUse"]
    ELSE LET o == open_file(fs, dsk, gt, filename)
         IN  IF ~o.ok
             THEN [ok |-> FALSE, files |-> fs, oh |-> oh, fh |-> fh,
                   content |-> Empty, msg |-> o.error]
             ELSE [ok |-> TRUE, files |-> o.files,
                   oh |-> Put(oh, handle, filename),
                   fh |-> Put(fh, filename,
                              (IF filename \in DOMAIN fh THEN fh[filename] ELSE {})
                                  \cup {handle}),
                   content |-> o.content, msg |-> ""]

\* A close that releases the working-tree file for a handle it does not know.
Connection_close_file_unchecked(fs, oh, fh, handle) ==
    IF handle \notin DOMAIN oh
    THEN [ok |-> FALSE, files |-> close_file(fs, WorkName), oh |-> oh, fh |-> fh]
    ELSE LET filename == oh[handle]
             left == fh[filename] \ {handle}
         IN  [ok |-> TRUE,
              files |-> close_file(fs, filename),
              oh |-> Del(oh, handle),
              fh |-> IF left = {} THEN Del(fh, filename) ELSE Put(fh, filename, left)]

\* Connection.close_file: [ok, files, oh, fh].
Connection_close_file(fs, oh, fh, handle) ==
    IF handle \notin DOMAIN oh
    THEN [ok |-> FALSE, files |-> fs, oh |-> oh, fh |-> fh]
    ELSE LET filename == oh[handle]
             left == fh[filename] \ {handle}
         IN  [ok |-> TRUE,
              files |-> close_file(fs, filename),
              oh |-> Del(oh, handle),
              fh |-> IF left = {} THEN Del(fh, filename) ELSE Put(fh, filename, left)]

RECURSIVE CloseTimes(_, _, _)
CloseTimes(fs, filename, n) ==
    IF n = 0 THEN fs ELSE CloseTimes(close_file(fs, filename), filename, n - 1)

RECURSIVE CloseAll(_, _, _)
CloseAll(fs, fh, todo) ==
    IF todo = {} THEN fs
    ELSE LET filename == CHOOSE n \in todo : TRUE
         IN  CloseAll(CloseTimes(fs, filename, Cardinality(fh[filename])), fh,
                      todo \ {filename})

remove_watcher(ws, s) == SelectSeq(ws, LAMBDA w : w # s)

\* Connection.__aexit__: one close_file per handle, then remove_watcher.
aexit(fs, ws, fh, s) ==
    [files |-> CloseAll(fs, fh, DOMAIN fh), watchers |-> remove_watcher(ws, s)]


\* ---------------------------------------------------------- HEAD tracking
Branches == {"main", "other"}

\* repository_path / ".git" / "HEAD"
_git_head_file == ".git/HEAD"

\* repository_path / ".git" / ref_path for the ref path of a branch.
RefFile(branch) ==
    IF branch = "main" THEN ".git/refs/heads/main" ELSE ".git/refs/heads/other"

\* A file under .git that is neither HEAD nor a ref file.
GitIndexFile == ".git/index"

GitPaths == {_git_head_file, GitIndexFile} \cup {RefFile(b) : b \in Branches}

\* A path that is not under repository_path.
OutsidePath == "/elsewhere/p"

\* A working-tree name no client opens.
OtherName == "q"

\* The value of _current_head_commit and _current_ref_file after construction.
None == "None"

\* The commit identifiers, in the order in which the commits are made.
CommitId(n) == <<"c1", "c2", "c3", "c4", "c5", "c6">>[n]

CommitIndex(c) == CHOOSE n \in 1..6 : CommitId(n) = c

\* The repository a FileSystem is constructed on: branches main and other at
\* the first commit, main checked out.
FirstRepo ==
    [HEAD |-> <<"ref", "main">>,
     refs |-> [b \in Branches |-> CommitId(1)],
     tree |-> <<[exists |-> TRUE, content |-> TextCB]>>]

\* _resolve_head_commit: [commit, ref_file].  HEAD and the ref files of the
\* model are always readable.
_resolve_head_commit(rp) ==
    IF rp.HEAD[1] = "ref"
    THEN [commit |-> rp.refs[rp.HEAD[2]], ref_file |-> RefFile(rp.HEAD[2])]
    ELSE [commit |-> rp.HEAD[2], ref_file |-> _git_head_file]

\* The blob of p at HEAD: what git cat-file blob HEAD:p finds.
BlobAtHead(rp) == rp.tree[CommitIndex(_resolve_head_commit(rp).commit)]

_initialize_head_tracking(rp) == _resolve_head_commit(rp)

\* An update of the committed files that refreshes the working-tree entry
\* of the same file from HEAD as well.
_update_committed_files_and_working(fs, dsk, gt, io, ws, fh, ord) ==
    IF CommittedName \notin DOMAIN fs \/ ~gt.exists THEN [files |-> fs, io |-> io]
    ELSE LET both == [n \in DOMAIN fs |-> [fs[n] EXCEPT !.content = gt.content]]
         IN  [files |-> both,
              io |-> _notify_watchers(io, ws, fh, CommittedName, gt.content,
                                      NoSource, ord)]

\* _update_committed_files: [files, io].  git reports a path missing from
\* HEAD as "does not exist in" when the working tree lacks it too, which
\* _read_file_from_git turns into FileNotFoundError, and as "exists on disk,
\* but not in" otherwise, which it re-raises and the loop body logs.
_update_committed_files(fs, dsk, gt, io, ws, fh, ord) ==
    IF CommittedName \notin DOMAIN fs THEN [files |-> fs, io |-> io]
    ELSE LET old_content == fs[CommittedName].content
             blob == _read_file_from_git(gt)
             raises == ~blob.ok /\ dsk[WorkName].exists
             new_content == IF blob.ok THEN blob.content ELSE Empty
         IN  IF raises \/ new_content = old_content
             THEN [files |-> fs, io |-> io]
             ELSE [files |-> [fs EXCEPT ![CommittedName].content = new_content],
                   io |-> _notify_watchers(io, ws, fh, CommittedName, new_content,
                                           NoSource, ord)]

\* _check_head_changes: [files, io, head].
_check_head_changes(fs, dsk, gt, rp, hd, io, ws, fh, ord) ==
    LET new == _resolve_head_commit(rp)
    IN  IF new.commit # hd.commit
        THEN LET u == _update_committed_files(fs, dsk, gt, io, ws, fh, ord)
             IN  [files |-> u.files, io |-> u.io, head |-> new]
        ELSE [files |-> fs, io |-> io, head |-> hd]


\* History: the content of the latest file_opened, file_written or
\* file_updated frame put on the transport of a session for a handle.
Unsent == <<"?">>

NothingSent == [s \in Sessions |-> [handle \in Handles |-> Unsent]]

RECURSIVE Sent(_, _)
Sent(ls, frames) ==
    IF frames = << >> THEN ls
    ELSE LET frame == Head(frames)
             ls2 == IF frame.type \in {"file_opened", "file_written", "file_updated"}
                    THEN [ls EXCEPT ![frame.to][frame.handle] = frame.content]
                    ELSE ls
         IN  Sent(ls2, Tail(frames))

\* ---------------------------------------------------------------- actions
Init ==
    /\ files = EmptyMap
    /\ watchers = << >>
    /\ disk = [path \in DiskPaths |-> IF path = WorkName THEN OnDisk(TextAB, 1) ELSE NoFile]
    /\ now = 1
    /\ git = [exists |-> TRUE, content |-> TextCB]
    /\ conn = [s \in Sessions |-> "new"]
    /\ open_handles = [s \in Sessions |-> EmptyMap]
    /\ file_handles = [s \in Sessions |-> EmptyMap]
    /\ tasks = << >>
    /\ events = {}
    /\ emitted = << >>
    /\ lag = 0
    /\ opens = [n \in Names |-> 0]
    /\ closes = [n \in Names |-> 0]
    /\ repo = FirstRepo
    /\ head = [commit |-> None, ref_file |-> None]
    /\ validated = NotValidated(<<"p">>)
    /\ atomic = NotWriting
    /\ watching = TRUE
    /\ last_sent = NothingSent

\* The mtimes the next disk write can get: the clock may or may not have
\* ticked since the latest write.
Times == {t \in {now, now + 1} : t <= MaxTime}

\* A send that puts nothing on the transport.
send_json_lost(io, frame) == io

\* websocket.send_json(frame): the frame is on the transport when the call
\* is made.
send_json(io, frame) == [io EXCEPT !.emitted = Append(@, frame)]

\* History: the tasks the running write created learn whether its
\* file_written reply was sent.
MarkReply(tq, v) ==
    [i \in DOMAIN tq |->
        IF tq[i].reply = "pending" THEN [tq[i] EXCEPT !.reply = v] ELSE tq[i]]

\* The loop gives a handler its turn: created tasks run "soon", so at most
\* MaxLag handler steps overtake a waiting task.
Turn(tq) ==
    /\ tasks = << >> \/ lag < MaxLag
    /\ lag' = IF tq = << >> \/ tasks = << >> THEN 0 ELSE lag + 1

\* The end of a command handler of session s that leaves r = [files, disk,
\* now, oh, fh, io, events] and sends reply.  When the send raises, so does
\* the send of the error frame, the exception leaves websocket_endpoint and
\* __aexit__ runs.
Finish(s, r, reply, sendOk) ==
    /\ Len(r.io.tasks) <= MaxTasks
    /\ Cardinality(r.events) <= MaxEvents
    /\ Turn(r.io.tasks)
    /\ disk' = r.disk
    /\ now' = r.now
    /\ events' = r.events
    /\ git' = git
    /\ UNCHANGED <<repo, head>>
    /\ tasks' = r.io.tasks
    /\ IF sendOk
       THEN /\ files' = r.files
            /\ open_handles' = [open_handles EXCEPT ![s] = r.oh]
            /\ file_handles' = [file_handles EXCEPT ![s] = r.fh]
            /\ emitted' = send_json(r.io, reply).emitted
            /\ UNCHANGED <<watchers, conn>>
       ELSE LET x == aexit(r.files, watchers, r.fh, s)
            IN  /\ files' = x.files
                /\ watchers' = x.watchers
                /\ conn' = [conn EXCEPT ![s] = "closed"]
                /\ open_handles' = [open_handles EXCEPT ![s] = EmptyMap]
                /\ file_handles' = [file_handles EXCEPT ![s] = EmptyMap]
                /\ emitted' = r.io.emitted

\* What a handler that changes nothing leaves.
Same(s) ==
    [files |-> files, disk |-> disk, now |-> now, oh |-> open_handles[s],
     fh |-> file_handles[s], io |-> IO(tasks, << >>), events |-> events]

\* Connection.__aenter__: accept, add_watcher.
Connect(s) ==
    /\ conn[s] = "new"
    /\ Turn(tasks)
    /\ conn' = [conn EXCEPT ![s] = "open"]
    /\ watchers' = Append(watchers, s)
    /\ emitted' = << >>
    /\ UNCHANGED <<files, disk, now, git, open_handles, file_handles, tasks, events,
                   repo, head>>

\* receive_json raises WebSocketDisconnect: __aexit__.
Disconnect(s) ==
    /\ conn[s] = "open"
    /\ Turn(tasks)
    /\ LET x == aexit(files, watchers, file_handles[s], s)
       IN  /\ files' = x.files
           /\ watchers' = x.watchers
    /\ conn' = [conn EXCEPT ![s] = "closed"]
    /\ open_handles' = [open_handles EXCEPT ![s] = EmptyMap]
    /\ file_handles' = [file_handles EXCEPT ![s] = EmptyMap]
    /\ emitted' = << >>
    /\ UNCHANGED <<disk, now, git, tasks, events, repo, head>>

\* handle_open_file
OpenFileCmd(s, path, handle, sendOk) ==
    /\ conn[s] = "open"
    /\ LET c == Connection_open_file(files, disk, git, open_handles[s],
                                     file_handles[s], path, handle)
           r == [Same(s) EXCEPT !.files = c.files, !.oh = c.oh, !.fh = c.fh]
       IN  IF c.ok
           THEN Finish(s, r, Frame(s, "file_opened", handle, c.content, ""), sendOk)
           ELSE Finish(s, r, Frame(s, "error", NoHandle, Empty, c.msg), sendOk)

\* handle_close_file
CloseFileCmd(s, handle, sendOk) ==
    /\ conn[s] = "open"
    /\ LET c == Connection_close_file(files, open_handles[s], file_handles[s], handle)
           r == [Same(s) EXCEPT !.files = c.files, !.oh = c.oh, !.fh = c.fh]
       IN  IF c.ok
           THEN Finish(s, r, Frame(s, "file_closed", handle, Empty, ""), sendOk)
           ELSE Finish(s, r, Frame(s, "error", NoHandle, Empty, "InvalidHandle"), sendOk)

\* handle_write_file; fault is "io" when the atomic write raises OSError,
\* "dmp" when the diff library raises inside _merge_content, "none" otherwise.
\* Inputs the outcome does not depend on are fixed.
WriteFileCmd(s, handle, last_content, new_content, t, ord, fault, sendOk) ==
    /\ conn[s] = "open"
    /\ IF handle \notin DOMAIN open_handles[s]
       THEN /\ fault = "none" /\ t = now /\ ord = NoOrder
            /\ Finish(s, Same(s), Frame(s, "error", NoHandle, Empty, "InvalidHandle"), sendOk)
       ELSE LET filename == open_handles[s][handle]
                source == <<s, handle>>
                w == write_file(files, disk, git, watchers, file_handles,
                                IO(tasks, << >>), filename, last_content,
                                new_content, source, ord, t, fault = "io",
                                fault = "dmp")
                io2 == [w.io EXCEPT !.tasks =
                           MarkReply(@, IF sendOk THEN "sent" ELSE "failed")]
            IN  /\ fault = "io" => t = now
                /\ fault = "dmp" => (filename \in DOMAIN files
                                     /\ files[filename].content # last_content)
                /\ IF w.ok
                   THEN Finish(s, [Same(s) EXCEPT !.files = w.files, !.disk = w.disk,
                                       !.now = t, !.io = io2,
                                       !.events = events
                                           \cup {WriteEvent(disk, absolute_path(filename))}],
                               Frame(s, "file_written", handle, w.content, ""), sendOk)
                   ELSE Finish(s, [Same(s) EXCEPT !.files = w.files],
                               Frame(s, "error", NoHandle, Empty, "IoError"), sendOk)

\* handle_command with an unknown type, or a handler that finds a required
\* field missing.
BadCmd(s, sendOk) ==
    /\ conn[s] = "open"
    /\ Finish(s, Same(s), Frame(s, "error", NoHandle, Empty, "BadCommand"), sendOk)

\* A send whose exception is not caught: it ends the sends that wait
\* behind it.
RunTask_raises(sendOk) ==
    /\ tasks # << >>
    /\ LET t == Head(tasks)
           sent == sendOk /\ conn[t.conn] = "open"
       IN  /\ emitted' = IF sent THEN <<UpdateFrame(t)>> ELSE << >>
           /\ tasks' = IF sent THEN Tail(tasks) ELSE << >>
           /\ lag' = IF tasks' = << >> THEN 0 ELSE lag
    /\ UNCHANGED <<files, watchers, disk, now, git, conn, open_handles,
                   file_handles, events, repo, head>>

\* A loop that runs the newest send task first.
RunTask_newest_first(sendOk) ==
    /\ tasks # << >>
    /\ LET t == tasks[Len(tasks)]
       IN  emitted' = IF sendOk /\ conn[t.conn] = "open"
                      THEN <<UpdateFrame(t)>> ELSE << >>
    /\ tasks' = SubSeq(tasks, 1, Len(tasks) - 1)
    /\ lag' = IF tasks' = << >> THEN 0 ELSE lag
    /\ UNCHANGED <<files, watchers, disk, now, git, conn, open_handles,
                   file_handles, events, repo, head>>

\* The loop runs the oldest send task: Connection._send_file_updated.  A
\* send on a closed transport raises and the exception is swallowed.
RunTask(sendOk) ==
    /\ tasks # << >>
    /\ LET t == Head(tasks)
       IN  emitted' = IF sendOk /\ conn[t.conn] = "open"
                      THEN <<UpdateFrame(t)>> ELSE << >>
    /\ tasks' = Tail(tasks)
    /\ lag' = IF Tail(tasks) = << >> THEN 0 ELSE lag
    /\ UNCHANGED <<files, watchers, disk, now, git, conn, open_handles,
                   file_handles, events, repo, head>>


\* -------------------------------------------------------- change detector
\* A deletion handler that evicts the entry and tells nobody.
_handle_file_deletion_silent(fs, io, ws, fh, filename, ord) ==
    [files |-> IF filename \in DOMAIN fs THEN Del(fs, filename) ELSE fs, io |-> io]

\* _handle_file_deletion: [files, io].
_handle_file_deletion(fs, io, ws, fh, filename, ord) ==
    IF filename \in DOMAIN fs
    THEN [files |-> Del(fs, filename),
          io |-> _notify_watchers(io, ws, fh, filename, Empty, NoSource, ord)]
    ELSE [files |-> fs, io |-> io]

\* A modification handler that refreshes the content and leaves the cached
\* mtime as it was.
_handle_file_modification_keeps_mtime(fs, dsk, io, ws, fh, filename, ord, readFails) ==
    IF ~dsk[filename].exists \/ filename \notin DOMAIN fs \/ readFails
    THEN [files |-> fs, io |-> io]
    ELSE IF fs[filename].mtime = dsk[filename].mtime
    THEN [files |-> fs, io |-> io]
    ELSE [files |-> [fs EXCEPT ![filename].content = dsk[filename].content],
          io |-> _notify_watchers(io, ws, fh, filename, dsk[filename].content,
                                  NoSource, ord)]

\* A modification handler without the mtime comparison.
_handle_file_modification_always_reads(fs, dsk, io, ws, fh, filename, ord, readFails) ==
    IF ~dsk[filename].exists \/ filename \notin DOMAIN fs \/ readFails
    THEN [files |-> fs, io |-> io]
    ELSE [files |-> [fs EXCEPT ![filename].content = dsk[filename].content,
                               ![filename].mtime = dsk[filename].mtime],
          io |-> _notify_watchers(io, ws, fh, filename, dsk[filename].content,
                                  NoSource, ord)]

\* _handle_file_modification: [files, io]; readFails is the OSError or
\* UnicodeDecodeError of read_text.
_handle_file_modification(fs, dsk, io, ws, fh, filename, ord, readFails) ==
    IF ~dsk[filename].exists
    THEN _handle_file_deletion(fs, io, ws, fh, filename, ord)
    ELSE LET current_mtime == dsk[filename].mtime
             new_content == dsk[filename].content
         IN  IF filename \in DOMAIN fs /\ fs[filename].mtime = current_mtime
             THEN [files |-> fs, io |-> io]
             ELSE IF readFails
             THEN [files |-> fs, io |-> io]
             ELSE IF filename \in DOMAIN fs
             THEN [files |-> [fs EXCEPT ![filename].content = new_content,
                                        ![filename].mtime = current_mtime],
                   io |-> _notify_watchers(io, ws, fh, filename, new_content,
                                           NoSource, ord)]
             ELSE [files |-> fs, io |-> io]

\* The tracked-file part of _handle_file_change: [files, io].
HandleTracked(fs, dsk, io, ws, fh, change_type, filename, ord, readFails) ==
    IF filename \notin DOMAIN fs
    THEN [files |-> fs, io |-> io]
    ELSE IF change_type = "deleted"
    THEN _handle_file_deletion(fs, io, ws, fh, filename, ord)
    ELSE _handle_file_modification(fs, dsk, io, ws, fh, filename, ord, readFails)

\* A handler that takes a path outside the repository for the file of the
\* same name inside it.
_handle_file_change_by_basename(fs, dsk, gt, rp, hd, io, ws, fh, change_type, file_path, ord, readFails) ==
    LET name == IF file_path = OutsidePath THEN WorkName ELSE file_path
        r == IF name \in GitPaths THEN [files |-> fs, io |-> io]
             ELSE HandleTracked(fs, dsk, io, ws, fh, change_type, name, ord, readFails)
    IN  [files |-> r.files, io |-> r.io, head |-> hd]

\* _handle_file_change for one raw event: [files, io, head].
_handle_file_change(fs, dsk, gt, rp, hd, io, ws, fh, change_type, file_path, ord, readFails) ==
    IF file_path = OutsidePath
    THEN [files |-> fs, io |-> io, head |-> hd]
    ELSE IF file_path \in GitPaths
    THEN IF file_path = _git_head_file \/ (hd.ref_file # None /\ file_path = hd.ref_file)
         THEN _check_head_changes(fs, dsk, gt, rp, hd, io, ws, fh, ord)
         ELSE [files |-> fs, io |-> io, head |-> hd]
    ELSE LET r == HandleTracked(fs, dsk, io, ws, fh, change_type, file_path, ord,
                                readFails)
         IN  [files |-> r.files, io |-> r.io, head |-> hd]

\* Whether handling the event reaches read_text.
ReadsFile(fs, dsk, change_type, filename) ==
    /\ filename \in DOMAIN fs
    /\ change_type # "deleted"
    /\ dsk[filename].exists
    /\ fs[filename].mtime # dsk[filename].mtime

\* A watcher task without the try/except of _handle_file_change: a read that
\* raises ends the task.
HandleFileChange_raises(ev, ord, readFails) ==
    /\ watching
    /\ ev \in events
    /\ readFails => ReadsFile(files, disk, ev[1], ev[2])
    /\ LET r == _handle_file_change(files, disk, git, repo, head, IO(tasks, << >>),
                                    watchers, file_handles, ev[1], ev[2], ord,
                                    readFails)
       IN  /\ Len(r.io.tasks) <= MaxTasks
           /\ Turn(r.io.tasks)
           /\ files' = r.files
           /\ tasks' = r.io.tasks
           /\ emitted' = r.io.emitted
           /\ head' = r.head
    /\ events' = events \ {ev}
    /\ UNCHANGED <<watchers, disk, now, git, conn, open_handles, file_handles, repo>>
    /\ watching' = ~readFails

\* The watcher task takes one pending event.
HandleFileChange(ev, ord, readFails) ==
    /\ watching
    /\ ev \in events
    /\ readFails => ReadsFile(files, disk, ev[1], ev[2])
    /\ LET r == _handle_file_change(files, disk, git, repo, head, IO(tasks, << >>),
                                    watchers, file_handles, ev[1], ev[2], ord,
                                    readFails)
       IN  /\ Len(r.io.tasks) <= MaxTasks
           /\ Turn(r.io.tasks)
           /\ files' = r.files
           /\ tasks' = r.io.tasks
           /\ emitted' = r.io.emitted
           /\ head' = r.head
    /\ events' = events \ {ev}
    /\ UNCHANGED <<watchers, disk, now, git, conn, open_handles, file_handles, repo,
                   watching, last_sent>>

\* ------------------------------------------------------ external processes
\* Another process writes a file of the working tree.
ExtWrite(path, text, t) ==
    /\ t \in Times
    /\ disk' = [disk EXCEPT ![path] = OnDisk(text, t)]
    /\ now' = t
    /\ events' = events \cup {WriteEvent(disk, path)}
    /\ Cardinality(events') <= MaxEvents
    /\ emitted' = << >>
    /\ UNCHANGED <<files, watchers, git, conn, open_handles, file_handles, tasks, lag,
                   repo, head>>

\* Another process removes a file of the working tree.
ExtDelete(path) ==
    /\ disk[path].exists
    /\ disk' = [disk EXCEPT ![path] = NoFile]
    /\ events' = events \cup {<<"deleted", path>>}
    /\ Cardinality(events') <= MaxEvents
    /\ emitted' = << >>
    /\ UNCHANGED <<files, watchers, now, git, conn, open_handles, file_handles, tasks, lag,
                   repo, head>>

\* The watcher reports an event that no change of the disk goes with: a
\* repeated report, or a report for a path the detector has no interest in.
RawEvent(change_type, file_path) ==
    /\ events' = events \cup {<<change_type, file_path>>}
    /\ events' # events
    /\ Cardinality(events') <= MaxEvents
    /\ emitted' = << >>
    /\ UNCHANGED <<files, watchers, disk, now, git, conn, open_handles, file_handles,
                   tasks, lag, repo, head>>

\* A caller in the process edits filename through FileSystem.edit_file; the
\* edit function returns new_content.
EditFileCall(filename, new_content, t, ord, ioFails) ==
    /\ t \in Times
    /\ ioFails => t = now
    /\ LET e == edit_file(files, disk, git, watchers, file_handles, IO(tasks, << >>),
                          filename, new_content, ord, t, ioFails)
       IN  /\ Len(e.io.tasks) <= MaxTasks
           /\ Turn(e.io.tasks)
           /\ files' = e.files
           /\ disk' = e.disk
           /\ tasks' = e.io.tasks
           /\ now' = IF e.ok THEN t ELSE now
           /\ events' = IF e.ok THEN events \cup {WriteEvent(disk, absolute_path(filename))}
                        ELSE events
           /\ Cardinality(events') <= MaxEvents
    /\ emitted' = << >>
    /\ UNCHANGED <<watchers, git, conn, open_handles, file_handles, repo, head>>

\* A caller in the process writes filename through FileSystem.write_file
\* with no source; fault is "io" when the atomic write raises OSError, "dmp"
\* when the diff library raises inside _merge_content.
WriteFileCall(filename, last_content, content, t, ord, fault) ==
    /\ t \in Times
    /\ fault = "io" => t = now
    /\ LET w == write_file(files, disk, git, watchers, file_handles, IO(tasks, << >>),
                           filename, last_content, content, NoSource, ord, t,
                           fault = "io", fault = "dmp")
       IN  /\ Len(w.content) <= MaxText
           /\ Len(w.io.tasks) <= MaxTasks
           /\ Turn(w.io.tasks)
           /\ files' = w.files
           /\ disk' = w.disk
           /\ tasks' = w.io.tasks
           /\ now' = IF w.ok THEN t ELSE now
           /\ events' = IF w.ok THEN events \cup {WriteEvent(disk, absolute_path(filename))}
                        ELSE events
           /\ Cardinality(events') <= MaxEvents
    /\ emitted' = << >>
    /\ UNCHANGED <<watchers, git, conn, open_handles, file_handles, repo, head>>

\* A caller in the process edits filename with edit_function, a function
\* from the content open_file returns to the new content or Raised.
EditFunctionCall(filename, edit_function, t, ord, ioFails) ==
    LET o == open_file(files, disk, git, filename)
    IN  EditFileCall(filename, IF o.ok THEN edit_function[o.content] ELSE Empty,
                     t, ord, ioFails)

\* The blob that git add -A stages for p: the file of the working tree.
StagedBlob(dsk) ==
    [exists |-> dsk[WorkName].exists, content |-> dsk[WorkName].content]

\* A commit that records a new commit even when nothing is staged, as
\* git commit --allow-empty does.
commit_allow_empty(rp, dsk, othersChanged) ==
    LET id == CommitId(Len(rp.tree) + 1)
        tree == Append(rp.tree, StagedBlob(dsk))
    IN  IF rp.HEAD[1] = "ref"
        THEN [repo |-> [rp EXCEPT !.tree = tree, !.refs[rp.HEAD[2]] = id],
              events |-> {<<"modified", RefFile(rp.HEAD[2])>>}]
        ELSE [repo |-> [rp EXCEPT !.tree = tree, !.HEAD = <<"detached", id>>],
              events |-> {<<"modified", _git_head_file>>}]

\* FileSystem.commit: [repo, events].  git add -A, git commit; othersChanged
\* says whether a file other than p differs from HEAD.  With nothing to
\* commit git fails and the failure is passed over.  The commit moves the
\* checked-out branch, or HEAD itself when HEAD is detached.
commit(rp, dsk, othersChanged) ==
    IF StagedBlob(dsk) = BlobAtHead(rp) /\ ~othersChanged
    THEN [repo |-> rp, events |-> {}]
    ELSE LET id == CommitId(Len(rp.tree) + 1)
             tree == Append(rp.tree, StagedBlob(dsk))
         IN  IF rp.HEAD[1] = "ref"
             THEN [repo |-> [rp EXCEPT !.tree = tree, !.refs[rp.HEAD[2]] = id],
                   events |-> {<<"modified", RefFile(rp.HEAD[2])>>}]
             ELSE [repo |-> [rp EXCEPT !.tree = tree, !.HEAD = <<"detached", id>>],
                   events |-> {<<"modified", _git_head_file>>}]

\* handle_commit; gitFails is a git failure other than "nothing to commit",
\* which commit raises as RuntimeError and the handler answers with an error.
CommitCmd(s, othersChanged, gitFails, sendOk) ==
    /\ conn[s] = "open"
    /\ LET c == IF gitFails THEN [repo |-> repo, events |-> {}]
                ELSE commit(repo, disk, othersChanged)
           reply == IF gitFails THEN Frame(s, "error", NoHandle, Empty, "GitError")
                    ELSE Frame(s, "committed", NoHandle, Empty, "")
       IN  /\ Len(c.repo.tree) <= MaxCommits
           /\ repo' = c.repo
           /\ git' = BlobAtHead(c.repo)
           /\ events' = events \cup c.events
           /\ Cardinality(events') <= MaxEvents
           /\ Turn(tasks)
           /\ tasks' = tasks
           /\ IF sendOk
              THEN /\ emitted' = send_json(IO(tasks, << >>), reply).emitted
                   /\ UNCHANGED <<files, watchers, conn, open_handles, file_handles>>
              ELSE LET x == aexit(files, watchers, file_handles[s], s)
                   IN  /\ files' = x.files
                       /\ watchers' = x.watchers
                       /\ conn' = [conn EXCEPT ![s] = "closed"]
                       /\ open_handles' = [open_handles EXCEPT ![s] = EmptyMap]
                       /\ file_handles' = [file_handles EXCEPT ![s] = EmptyMap]
                       /\ emitted' = << >>
    /\ UNCHANGED <<disk, now, head>>

\* The commits of the repository.
Commits(rp) == {CommitId(n) : n \in 1..Len(rp.tree)}

\* Another process runs git checkout: newHead is <<"ref", branch>> or
\* <<"detached", commit>>.  git rewrites p when its blob differs between
\* the two commits, and refuses when p then has uncommitted changes.
GitCheckout(newHead, t) ==
    /\ newHead # repo.HEAD
    /\ t \in Times
    /\ LET rp == [repo EXCEPT !.HEAD = newHead]
           target == BlobAtHead(rp)
       IN  /\ repo' = rp
           /\ git' = target
           /\ IF target = BlobAtHead(repo)
              THEN t = now /\ disk' = disk
              ELSE /\ StagedBlob(disk) = BlobAtHead(repo)
                   /\ disk' = [disk EXCEPT ![WorkName] =
                                  IF target.exists THEN OnDisk(target.content, t)
                                  ELSE NoFile]
    /\ now' = t
    /\ events' = events \cup {<<"modified", _git_head_file>>}
    /\ Cardinality(events') <= MaxEvents
    /\ emitted' = << >>
    /\ UNCHANGED <<files, watchers, conn, open_handles, file_handles, tasks, lag, head>>

\* Another process runs git rm --cached p and git commit: the new commit
\* has no blob for p, and p stays in the working tree.
GitRmCached ==
    /\ BlobAtHead(repo).exists
    /\ disk[WorkName].exists
    /\ LET c == commit(repo, [disk EXCEPT ![WorkName] = NoFile], FALSE)
       IN  /\ Len(c.repo.tree) <= MaxCommits
           /\ repo' = c.repo
           /\ git' = BlobAtHead(c.repo)
           /\ events' = events \cup c.events
           /\ Cardinality(events') <= MaxEvents
    /\ emitted' = << >>
    /\ UNCHANGED <<files, watchers, disk, now, conn, open_handles, file_handles, tasks,
                   lag, head>>

\* ----------------------------------------------------------- specification
\* The iteration orders a command through handle of s can meet.
WriteOrders(s, handle) ==
    IF handle \in DOMAIN open_handles[s]
    THEN IterationOrders(file_handles, open_handles[s][handle])
    ELSE {NoOrder}

Faults == {"none", "io", "dmp"}

\* The sessions-and-registry specification: every handler, the detector and
\* the external processes, over one working-tree file and the least texts
\* that make a write change the file.
Next ==
    \/ \E s \in Sessions : Connect(s) /\ UNCHANGED <<opens, closes, validated, atomic, watching, last_sent>>
    \/ \E s \in Sessions : Disconnect(s) /\ UNCHANGED <<opens, closes, validated, atomic, watching, last_sent>>
    \/ \E s \in Sessions : \E handle \in HandlesOf(s), sendOk \in BOOLEAN :
          OpenFileCmd(s, WorkName, handle, sendOk) /\ UNCHANGED <<opens, closes, validated, atomic, watching, last_sent>>
    \/ \E s \in Sessions : \E handle \in HandlesOf(s), sendOk \in BOOLEAN :
          CloseFileCmd(s, handle, sendOk) /\ UNCHANGED <<opens, closes, validated, atomic, watching, last_sent>>
    \/ \E s \in Sessions : \E handle \in HandlesOf(s) :
       \E t \in Times, ord \in WriteOrders(s, handle), fault \in Faults,
          sendOk \in BOOLEAN :
          WriteFileCmd(s, handle, TextAB, TextCB, t, ord, fault, sendOk)
          /\ UNCHANGED <<opens, closes, validated, atomic, watching, last_sent>>
    \/ \E s \in Sessions, sendOk \in BOOLEAN :
          BadCmd(s, sendOk) /\ UNCHANGED <<opens, closes, validated, atomic, watching, last_sent>>
    \/ \E sendOk \in BOOLEAN : RunTask(sendOk) /\ UNCHANGED <<opens, closes, validated, atomic, watching, last_sent>>
    \/ \E ev \in events : \E ord \in IterationOrders(file_handles, ev[2]),
          readFails \in BOOLEAN :
          HandleFileChange(ev, ord, readFails) /\ UNCHANGED <<opens, closes, validated, atomic, watching, last_sent>>
    \/ \E t \in Times :
          ExtWrite(WorkName, TextAB, t) /\ UNCHANGED <<opens, closes, validated, atomic, watching, last_sent>>
    \/ ExtDelete(WorkName) /\ UNCHANGED <<opens, closes, validated, atomic, watching, last_sent>>

Spec == Init /\ [][Next]_vars

\* The write specification: two connected sessions, one handle string each,
\* every command of the protocol, every client text, and an external writer
\* whose change the detector picks up.
InitWrite ==
    /\ files = EmptyMap
    /\ watchers = <<"A", "B">>
    /\ disk = [path \in DiskPaths |-> IF path = WorkName THEN OnDisk(TextAB, 1) ELSE NoFile]
    /\ now = 1
    /\ git = [exists |-> TRUE, content |-> TextCB]
    /\ conn = [s \in Sessions |-> "open"]
    /\ open_handles = [s \in Sessions |-> EmptyMap]
    /\ file_handles = [s \in Sessions |-> EmptyMap]
    /\ tasks = << >>
    /\ events = {}
    /\ emitted = << >>
    /\ lag = 0
    /\ opens = [n \in Names |-> 0]
    /\ closes = [n \in Names |-> 0]
    /\ repo = FirstRepo
    /\ head = [commit |-> None, ref_file |-> None]
    /\ validated = NotValidated(<<"p">>)
    /\ atomic = NotWriting
    /\ watching = TRUE
    /\ last_sent = NothingSent

\* The write commands a client sends through handle h1.
WriteOf(s) ==
    \E last_content \in Texts, new_content \in Texts, t \in Times,
       ord \in WriteOrders(s, "h1"), fault \in Faults :
       WriteFileCmd(s, "h1", last_content, new_content, t, ord, fault, TRUE)

NextWrite ==
    \/ \E s \in Sessions :
          OpenFileCmd(s, WorkName, "h1", TRUE) /\ UNCHANGED <<opens, closes, validated, atomic, watching, last_sent>>
    \/ \E s \in Sessions :
          CloseFileCmd(s, "h1", TRUE) /\ UNCHANGED <<opens, closes, validated, atomic, watching, last_sent>>
    \/ \E s \in Sessions : WriteOf(s) /\ UNCHANGED <<opens, closes, validated, atomic, watching, last_sent>>
    \/ \E s \in Sessions : BadCmd(s, TRUE) /\ UNCHANGED <<opens, closes, validated, atomic, watching, last_sent>>
    \/ RunTask(TRUE) /\ UNCHANGED <<opens, closes, validated, atomic, watching, last_sent>>
    \/ \E ev \in events : \E ord \in IterationOrders(file_handles, ev[2]) :
          HandleFileChange(ev, ord, FALSE) /\ UNCHANGED <<opens, closes, validated, atomic, watching, last_sent>>
    \/ \E text \in ExtTexts, t \in Times :
          ExtWrite(WorkName, text, t) /\ UNCHANGED <<opens, closes, validated, atomic, watching, last_sent>>

SpecWrite == InitWrite /\ [][NextWrite]_vars

\* The detector specification: two connected sessions with one handle string
\* each while watch_files runs; clients and an in-process caller write p, an
\* external process rewrites and removes it, and the watcher reports events
\* of every kind for every class of path.
InitDetect ==
    /\ files = EmptyMap
    /\ watchers = <<"A", "B">>
    /\ disk = [path \in DiskPaths |-> IF path = WorkName THEN OnDisk(TextAB, 1) ELSE NoFile]
    /\ now = 1
    /\ git = [exists |-> TRUE, content |-> TextCB]
    /\ conn = [s \in Sessions |-> "open"]
    /\ open_handles = [s \in Sessions |-> EmptyMap]
    /\ file_handles = [s \in Sessions |-> EmptyMap]
    /\ tasks = << >>
    /\ events = {}
    /\ emitted = << >>
    /\ lag = 0
    /\ opens = [n \in Names |-> 0]
    /\ closes = [n \in Names |-> 0]
    /\ repo = FirstRepo
    /\ head = _initialize_head_tracking(FirstRepo)
    /\ validated = NotValidated(<<"p">>)
    /\ atomic = NotWriting
    /\ watching = TRUE
    /\ last_sent = NothingSent

ChangeTypes == {"added", "modified", "deleted"}

\* The paths the watcher reports.
RawPaths == {WorkName, OtherName, OutsidePath} \cup GitPaths

\* The name whose handles the handling of an event can fan out to.
EventName(ev) == IF ev[2] \in GitPaths THEN CommittedName ELSE ev[2]

NextDetect ==
    \/ \E s \in Sessions :
          OpenFileCmd(s, WorkName, "h1", TRUE) /\ UNCHANGED <<opens, closes, validated, atomic, watching, last_sent>>
    \/ \E s \in Sessions :
          CloseFileCmd(s, "h1", TRUE) /\ UNCHANGED <<opens, closes, validated, atomic, watching, last_sent>>
    \/ \E s \in Sessions : \E t \in Times, ord \in WriteOrders(s, "h1") :
          WriteFileCmd(s, "h1", TextAB, TextCB, t, ord, "none", TRUE)
          /\ UNCHANGED <<opens, closes, validated, atomic, watching, last_sent>>
    \/ \E t \in Times, ord \in IterationOrders(file_handles, WorkName),
          ioFails \in BOOLEAN :
          EditFileCall(WorkName, TextCB, t, ord, ioFails) /\ UNCHANGED <<opens, closes, validated, atomic, watching, last_sent>>
    \/ RunTask(TRUE) /\ UNCHANGED <<opens, closes, validated, atomic, watching, last_sent>>
    \/ \E ev \in events : \E ord \in IterationOrders(file_handles, EventName(ev)),
          readFails \in BOOLEAN :
          HandleFileChange(ev, ord, readFails) /\ UNCHANGED <<opens, closes, validated, atomic, watching, last_sent>>
    \/ \E t \in Times :
          ExtWrite(WorkName, TextAD, t) /\ UNCHANGED <<opens, closes, validated, atomic, watching, last_sent>>
    \/ ExtDelete(WorkName) /\ UNCHANGED <<opens, closes, validated, atomic, watching, last_sent>>
    \/ \E change_type \in ChangeTypes, file_path \in RawPaths :
          RawEvent(change_type, file_path) /\ UNCHANGED <<opens, closes, validated, atomic, watching, last_sent>>

SpecDetect == InitDetect /\ [][NextDetect]_vars

\* The HEAD specification: two connected sessions that open and close the
\* committed name while watch_files runs; clients commit the working tree,
\* and other processes remove p and check out branches and commits.
HeadTargets(rp) ==
    {<<"ref", b>> : b \in Branches} \cup {<<"detached", c>> : c \in Commits(rp)}

NextHead ==
    \/ \E s \in Sessions :
          OpenFileCmd(s, CommittedName, "h1", TRUE) /\ UNCHANGED <<opens, closes, validated, atomic, watching, last_sent>>
    \/ \E s \in Sessions :
          CloseFileCmd(s, "h1", TRUE) /\ UNCHANGED <<opens, closes, validated, atomic, watching, last_sent>>
    \/ \E s \in Sessions : \E othersChanged \in BOOLEAN, gitFails \in BOOLEAN :
          CommitCmd(s, othersChanged, gitFails, TRUE) /\ UNCHANGED <<opens, closes, validated, atomic, watching, last_sent>>
    \/ RunTask(TRUE) /\ UNCHANGED <<opens, closes, validated, atomic, watching, last_sent>>
    \/ \E ev \in events : \E ord \in IterationOrders(file_handles, EventName(ev)) :
          HandleFileChange(ev, ord, FALSE) /\ UNCHANGED <<opens, closes, validated, atomic, watching, last_sent>>
    \/ ExtDelete(WorkName) /\ UNCHANGED <<opens, closes, validated, atomic, watching, last_sent>>
    \/ \E newHead \in HeadTargets(repo), t \in Times :
          GitCheckout(newHead, t) /\ UNCHANGED <<opens, closes, validated, atomic, watching, last_sent>>

SpecHead == InitDetect /\ [][NextHead]_vars

\* The committed-name specification: two connected sessions open, write
\* through and close handles on the committed name while watch_files runs.
NextCommitted ==
    \/ \E s \in Sessions :
          OpenFileCmd(s, CommittedName, "h1", TRUE) /\ UNCHANGED <<opens, closes, validated, atomic, watching, last_sent>>
    \/ \E s \in Sessions :
          CloseFileCmd(s, "h1", TRUE) /\ UNCHANGED <<opens, closes, validated, atomic, watching, last_sent>>
    \/ \E s \in Sessions : WriteOf(s) /\ UNCHANGED <<opens, closes, validated, atomic, watching, last_sent>>
    \/ RunTask(TRUE) /\ UNCHANGED <<opens, closes, validated, atomic, watching, last_sent>>
    \/ \E ev \in events : \E ord \in IterationOrders(file_handles, EventName(ev)) :
          HandleFileChange(ev, ord, FALSE) /\ UNCHANGED <<opens, closes, validated, atomic, watching, last_sent>>

SpecCommitted == InitDetect /\ [][NextCommitted]_vars

\* The validator specification: a client path of at most MaxPathLen
\* characters is handed to _normalize_and_validate_path.
InitPath ==
    /\ PathTables
    /\ files = EmptyMap
    /\ watchers = << >>
    /\ disk = [path \in DiskPaths |-> IF path = WorkName THEN OnDisk(TextAB, 1) ELSE NoFile]
    /\ now = 1
    /\ git = [exists |-> TRUE, content |-> TextCB]
    /\ conn = [s \in Sessions |-> "new"]
    /\ open_handles = [s \in Sessions |-> EmptyMap]
    /\ file_handles = [s \in Sessions |-> EmptyMap]
    /\ tasks = << >>
    /\ events = {}
    /\ emitted = << >>
    /\ lag = 0
    /\ opens = [n \in Names |-> 0]
    /\ closes = [n \in Names |-> 0]
    /\ repo = FirstRepo
    /\ head = [commit |-> None, ref_file |-> None]
    /\ validated \in {NotValidated(filename) : filename \in ClientPaths}
    /\ atomic = NotWriting
    /\ watching = TRUE
    /\ last_sent = NothingSent

Validate ==
    /\ ~validated.result.done
    /\ validated' = [validated EXCEPT
                         !.result = _normalize_and_validate_path(validated.filename)]
    /\ UNCHANGED <<files, watchers, disk, now, git, conn, open_handles, file_handles,
                   tasks, events, emitted, lag, opens, closes, repo, head, atomic, watching, last_sent>>

NextPath == Validate

SpecPath == InitPath /\ [][NextPath]_vars

\* data.get(key, default)
get(data, key, default) == IF key \in DOMAIN data THEN data[key] ELSE default

\* handle_command and the handler it dispatches to.  A handler that finds
\* handle, path or message missing or empty answers with an error; write_file
\* takes last_content and new_content as "" when they are missing.
handle_command(s, data, othersChanged, t, ord, sendOk) ==
    LET command_type == get(data, "type", None)
        handle == get(data, "handle", "")
    IN  IF command_type = "open_file"
        THEN /\ t = now /\ ord = NoOrder /\ ~othersChanged
             /\ IF get(data, "path", "") = "" \/ handle = ""
                THEN BadCmd(s, sendOk)
                ELSE OpenFileCmd(s, data.path, handle, sendOk)
        ELSE IF command_type = "close_file"
        THEN /\ t = now /\ ord = NoOrder /\ ~othersChanged
             /\ IF handle = "" THEN BadCmd(s, sendOk)
                ELSE CloseFileCmd(s, handle, sendOk)
        ELSE IF command_type = "write_file"
        THEN /\ ~othersChanged
             /\ IF handle = ""
                THEN t = now /\ ord = NoOrder /\ BadCmd(s, sendOk)
                ELSE WriteFileCmd(s, handle, get(data, "last_content", Empty),
                                  get(data, "new_content", Empty), t, ord, "none",
                                  sendOk)
        ELSE IF command_type = "commit"
        THEN /\ t = now /\ ord = NoOrder
             /\ IF get(data, "message", "") = ""
                THEN ~othersChanged /\ BadCmd(s, sendOk)
                ELSE CommitCmd(s, othersChanged, FALSE, sendOk)
        ELSE /\ t = now /\ ord = NoOrder /\ ~othersChanged
             /\ BadCmd(s, sendOk)

\* The paths a client of the command specification opens.
OpenPaths == {WorkName, ParentName}

\* The commands with every field of the protocol.
CompleteCommands(s) ==
    {[type |-> "open_file", path |-> path, handle |-> handle] :
        path \in OpenPaths, handle \in {"h1"}}
    \cup {[type |-> "close_file", handle |-> "h1"]}
    \cup {[type |-> "write_file", handle |-> "h1", last_content |-> TextAB,
           new_content |-> TextCB]}

\* The commands that lack a field of the protocol or have an unknown type.
IncompleteCommands ==
    {[type |-> "open_file", handle |-> "h1"],
     [type |-> "open_file", path |-> WorkName],
     [type |-> "close_file"],
     [type |-> "write_file", last_content |-> TextAB, new_content |-> TextCB],
     [type |-> "write_file", handle |-> "h1", last_content |-> TextAB],
     [type |-> "write_file", handle |-> "h1", new_content |-> TextCB],
     [type |-> "commit"],
     [type |-> "rename_file", handle |-> "h1"],
     [handle |-> "h1"]}

\* The iteration orders the fan-out of a command can meet.
CommandOrders(s, data) ==
    IF get(data, "type", None) = "write_file"
    THEN WriteOrders(s, get(data, "handle", "")) ELSE {NoOrder}

\* The command specification: two connected sessions send complete and
\* incomplete commands about the working-tree file while watch_files runs.
NextCommand ==
    \/ \E s \in Sessions : \E data \in CompleteCommands(s) \cup IncompleteCommands :
       \E t \in Times, ord \in CommandOrders(s, data) :
          /\ handle_command(s, data, FALSE, t, ord, TRUE)
          /\ Len(disk'[WorkName].content) <= MaxText
          /\ UNCHANGED <<opens, closes, validated, atomic, watching, last_sent>>
    \/ RunTask(TRUE) /\ UNCHANGED <<opens, closes, validated, atomic, watching, last_sent>>
    \/ \E ev \in events : \E ord \in IterationOrders(file_handles, EventName(ev)) :
          HandleFileChange(ev, ord, FALSE) /\ UNCHANGED <<opens, closes, validated, atomic, watching, last_sent>>

SpecCommand == InitDetect /\ [][NextCommand]_vars

\* The paths a client of the open specification opens.
RefusablePaths == {WorkName, CommittedName, ParentName}

\* The open specification: two connected sessions open and close the
\* working-tree name, the committed name and a path out of the repository
\* while watch_files runs; another process removes p and a client commits
\* the removal.
NextOpen ==
    \/ \E s \in Sessions, path \in RefusablePaths :
          OpenFileCmd(s, path, "h1", TRUE) /\ UNCHANGED <<opens, closes, validated, atomic, watching, last_sent>>
    \/ \E s \in Sessions :
          CloseFileCmd(s, "h1", TRUE) /\ UNCHANGED <<opens, closes, validated, atomic, watching, last_sent>>
    \/ \E s \in Sessions :
          CommitCmd(s, FALSE, FALSE, TRUE) /\ UNCHANGED <<opens, closes, validated, atomic, watching, last_sent>>
    \/ RunTask(TRUE) /\ UNCHANGED <<opens, closes, validated, atomic, watching, last_sent>>
    \/ \E ev \in events : \E ord \in IterationOrders(file_handles, EventName(ev)) :
          HandleFileChange(ev, ord, FALSE) /\ UNCHANGED <<opens, closes, validated, atomic, watching, last_sent>>
    \/ ExtDelete(WorkName) /\ UNCHANGED <<opens, closes, validated, atomic, watching, last_sent>>

SpecOpen == InitDetect /\ [][NextOpen]_vars

\* --------------------------------------------------- the atomic writer, step by step
\* The handler is synchronous from the call of write_file to its return, so
\* no other handler runs in between; another process can read the directory
\* between any two system calls of _write_file_atomic.
AtomicFrame ==
    UNCHANGED <<files, watchers, git, conn, open_handles, file_handles, tasks,
                events, lag, opens, closes, repo, head, validated, watching, last_sent>>

\* The number of handles, over all watchers, that a fan-out for filename
\* reaches.
Holders(filename) ==
    Cardinality(HandlesOn(file_handles, "A", filename))
        + Cardinality(HandlesOn(file_handles, "B", filename))

\* handle_write_file of s through h1 up to the call of _write_file_atomic.
\* The write is taken up when the loop has room for what it will queue.
WriteStart(s, last_content, content) ==
    /\ atomic.pc = "idle"
    /\ conn[s] = "open"
    /\ "h1" \in DOMAIN open_handles[s]
    /\ LET filename == open_handles[s]["h1"]
           o == open_file(files, disk, git, filename)
           current_content == IF o.ok THEN o.content ELSE Empty
           new_content == IF last_content = current_content THEN content
                          ELSE _merge_content(current_content, last_content, content,
                                              FALSE)
       IN  /\ Len(tasks) + Holders(filename) - 1 <= MaxTasks
           /\ Cardinality(events \cup {WriteEvent(disk, absolute_path(filename))})
                  <= MaxEvents
           /\ tasks = << >> \/ lag < MaxLag
           /\ atomic' = [NotWriting EXCEPT
                             !.pc = "mkstemp",
                             !.caller = [kind |-> "write", s |-> s,
                                         last_content |-> last_content,
                                         content |-> content],
                             !.file_path = absolute_path(filename),
                             !.content = new_content,
                             !.pre = disk[absolute_path(filename)]]
    /\ emitted' = << >>
    /\ UNCHANGED <<disk, now>>
    /\ AtomicFrame

\* edit_file(p, edit_function) up to the call of _write_file_atomic; the
\* edit function returns new_content.
EditStart(new_content) ==
    /\ atomic.pc = "idle"
    /\ open_file(files, disk, git, WorkName).ok
    /\ Len(tasks) + Holders(WorkName) <= MaxTasks
    /\ Cardinality(events \cup {WriteEvent(disk, WorkName)}) <= MaxEvents
    /\ tasks = << >> \/ lag < MaxLag
    /\ atomic' = [NotWriting EXCEPT
                      !.pc = "mkstemp",
                      !.caller = [kind |-> "edit", s |-> "A", last_content |-> Empty,
                                  content |-> new_content],
                      !.file_path = WorkName,
                      !.content = new_content,
                      !.pre = disk[WorkName]]
    /\ emitted' = << >>
    /\ UNCHANGED <<disk, now>>
    /\ AtomicFrame

\* A system call of the writer raises at position pc: the except clause
\* runs next when there is a temporary file to remove.
Raises(pc) ==
    [atomic EXCEPT !.pc = IF atomic.temp.exists THEN "cleanup" ELSE "return",
                   !.raised = pc]

\* tempfile.mkstemp
Mkstemp(fails, t) ==
    /\ atomic.pc = "mkstemp"
    /\ t \in Times
    /\ IF fails
       THEN t = now /\ atomic' = Raises("mkstemp") /\ disk' = disk
       ELSE LET d == mkstemp(disk, atomic.temp, t)
            IN  /\ disk' = d.disk
                /\ atomic' = [atomic EXCEPT !.pc = "write", !.temp = d.temp]
    /\ now' = t
    /\ emitted' = << >>
    /\ AtomicFrame

\* temp_file.write and flush, one character at a time.
WriteChunk(fails) ==
    /\ atomic.pc = "write"
    /\ Len(atomic.temp.content) < Len(atomic.content)
    /\ IF fails
       THEN atomic' = Raises("write") /\ disk' = disk
       ELSE LET d == temp_file_write(disk, atomic.temp, atomic.file_path,
                                     atomic.content, atomic.temp.mtime)
            IN  /\ disk' = d.disk
                /\ atomic' = [atomic EXCEPT !.temp = d.temp]
    /\ emitted' = << >>
    /\ UNCHANGED now
    /\ AtomicFrame

\* os.fsync and the close of the temporary file.
Fsync(fails) ==
    /\ atomic.pc = "write"
    /\ Len(atomic.temp.content) = Len(atomic.content)
    /\ atomic' = IF fails THEN Raises("fsync") ELSE [atomic EXCEPT !.pc = "stat"]
    /\ emitted' = << >>
    /\ UNCHANGED <<disk, now>>
    /\ AtomicFrame

\* os.stat(temp_path)
Stat(fails) ==
    /\ atomic.pc = "stat"
    /\ atomic' = IF fails THEN Raises("stat")
                 ELSE [atomic EXCEPT !.pc = "rename", !.mtime = atomic.temp.mtime]
    /\ emitted' = << >>
    /\ UNCHANGED <<disk, now>>
    /\ AtomicFrame

\* os.rename(temp_path, file_path)
Rename(fails) ==
    /\ atomic.pc = "rename"
    /\ IF fails
       THEN atomic' = Raises("rename") /\ disk' = disk
       ELSE LET d == os_rename(disk, atomic.temp, atomic.file_path)
            IN  /\ disk' = d.disk
                /\ atomic' = [atomic EXCEPT !.pc = "return", !.temp = d.temp]
    /\ emitted' = << >>
    /\ UNCHANGED now
    /\ AtomicFrame

\* The except clause: os.unlink(temp_path), then raise.
Unlink ==
    /\ atomic.pc = "cleanup"
    /\ LET d == os_unlink(disk, atomic.temp)
       IN  /\ disk' = d.disk
           /\ atomic' = [atomic EXCEPT !.pc = "return", !.temp = d.temp]
    /\ emitted' = << >>
    /\ UNCHANGED now
    /\ AtomicFrame

\* The rest of write_file and handle_write_file, or of edit_file, after
\* _write_file_atomic returned or raised: the Registry is updated, the file
\* closed, the watchers notified and the reply sent.
Return(ord) ==
    /\ atomic.pc = "return"
    /\ LET c == atomic.caller
           dsk == [disk EXCEPT ![atomic.file_path] = atomic.pre]
           ioFails == atomic.raised # ""
           done == [atomic EXCEPT !.pc = "idle"]
       IN  IF c.kind = "write"
           THEN LET filename == open_handles[c.s]["h1"]
                    w == write_file(files, dsk, git, watchers, file_handles,
                                    IO(tasks, << >>), filename, c.last_content,
                                    c.content, <<c.s, "h1">>, ord, atomic.mtime,
                                    ioFails, FALSE)
                    io2 == [w.io EXCEPT !.tasks = MarkReply(@, "sent")]
                IN  /\ ord \in IterationOrders(file_handles, filename)
                    /\ atomic' = done
                    /\ IF w.ok
                       THEN Finish(c.s, [Same(c.s) EXCEPT
                                            !.files = w.files, !.io = io2,
                                            !.events = events
                                                \cup {WriteEvent(dsk, atomic.file_path)}],
                                   Frame(c.s, "file_written", "h1", w.content, ""), TRUE)
                       ELSE Finish(c.s, [Same(c.s) EXCEPT !.files = w.files],
                                   Frame(c.s, "error", NoHandle, Empty, "IoError"), TRUE)
                    /\ UNCHANGED <<opens, closes, validated, watching, last_sent>>
           ELSE LET e == edit_file(files, dsk, git, watchers, file_handles,
                                   IO(tasks, << >>), WorkName, c.content, ord,
                                   atomic.mtime, ioFails)
                IN  /\ ord \in IterationOrders(file_handles, WorkName)
                    /\ atomic' = done
                    /\ Turn(e.io.tasks)
                    /\ files' = e.files
                    /\ tasks' = e.io.tasks
                    /\ events' = IF e.ok THEN events \cup {WriteEvent(dsk, WorkName)}
                                 ELSE events
                    /\ emitted' = << >>
                    /\ UNCHANGED <<watchers, disk, now, git, conn, open_handles,
                                   file_handles, opens, closes, repo, head, validated,
                                   watching, last_sent>>

\* Another process reads the target of the write.
ExtRead ==
    /\ atomic.pc # "idle"
    /\ LET image == [read |-> TRUE, exists |-> disk[atomic.file_path].exists,
                     content |-> disk[atomic.file_path].content]
       IN  /\ atomic.seen # image
           /\ atomic' = [atomic EXCEPT !.seen = image]
    /\ emitted' = << >>
    /\ UNCHANGED <<disk, now>>
    /\ AtomicFrame

\* A handler of the loop runs: none does while a write is under way.
Idle(A) == atomic.pc = "idle" /\ A /\ UNCHANGED <<opens, closes, validated, atomic, watching, last_sent>>

\* The writer specification: two connected sessions open and close p and
\* write it through the engine, an in-process caller edits it, every system
\* call of the atomic writer can fail, and another process reads p between
\* any two of them.
NextAtomic ==
    \/ \E s \in Sessions : Idle(OpenFileCmd(s, WorkName, "h1", TRUE))
    \/ \E s \in Sessions : Idle(CloseFileCmd(s, "h1", TRUE))
    \/ \E s \in Sessions : WriteStart(s, TextAB, TextCB)
    \/ EditStart(TextCB)
    \/ \E fails \in BOOLEAN, t \in Times : Mkstemp(fails, t)
    \/ \E fails \in BOOLEAN : WriteChunk(fails)
    \/ \E fails \in BOOLEAN : Fsync(fails)
    \/ \E fails \in BOOLEAN : Stat(fails)
    \/ \E fails \in BOOLEAN : Rename(fails)
    \/ Unlink
    \/ \E ord \in IterationOrders(file_handles, WorkName) : Return(ord)
    \/ ExtRead
    \/ Idle(RunTask(TRUE))
    \/ \E ev \in events : \E ord \in IterationOrders(file_handles, EventName(ev)) :
          Idle(HandleFileChange(ev, ord, FALSE))

SpecAtomic == InitDetect /\ [][NextAtomic]_vars

\* The two spellings of the working-tree file a client of the alias
\* specification sends.
AliasPaths == {WorkName, AliasName}

\* The alias specification: two connected sessions open the working-tree
\* file under either spelling, write it and close it while watch_files runs.
NextAlias ==
    \/ \E s \in Sessions, path \in AliasPaths :
          OpenFileCmd(s, path, "h1", TRUE) /\ UNCHANGED <<opens, closes, validated, atomic, watching, last_sent>>
    \/ \E s \in Sessions :
          CloseFileCmd(s, "h1", TRUE) /\ UNCHANGED <<opens, closes, validated, atomic, watching, last_sent>>
    \/ \E s \in Sessions : \E t \in Times, ord \in WriteOrders(s, "h1") :
          WriteFileCmd(s, "h1", TextAB, TextCB, t, ord, "none", TRUE)
          /\ UNCHANGED <<opens, closes, validated, atomic, watching, last_sent>>
    \/ RunTask(TRUE) /\ UNCHANGED <<opens, closes, validated, atomic, watching, last_sent>>
    \/ \E ev \in events : \E ord \in IterationOrders(file_handles, EventName(ev)) :
          HandleFileChange(ev, ord, FALSE) /\ UNCHANGED <<opens, closes, validated, atomic, watching, last_sent>>

SpecAlias == InitDetect /\ [][NextAlias]_vars

\* The watcher task takes a pending event.
Detect ==
    \E ev \in events : \E ord \in IterationOrders(file_handles, EventName(ev)) :
        HandleFileChange(ev, ord, FALSE) /\ UNCHANGED <<opens, closes, validated, atomic, watching, last_sent>>

\* The loop runs the oldest send task.
Deliver == RunTask(TRUE) /\ UNCHANGED <<opens, closes, validated, atomic, watching, last_sent>>

\* The HEAD specification on a loop that keeps running: the watcher task
\* takes every event reported to it, and every created send task is run.
\* Clients and other processes are under no obligation to act.
SpecHeadFair == SpecHead /\ WF_vars(Detect) /\ WF_vars(Deliver)

\* The handle string each name is opened through in the two-name
\* specification.
HandleOf(filename) == IF filename = WorkName THEN "h1" ELSE "h2"

TwoNames == {WorkName, CommittedName}

\* The two-name specification: A opens p through h1 and '@p' through h2,
\* writes through both and commits; B opens '@p' through h2; both close;
\* another process rewrites p and watch_files runs.
NextNames ==
    \/ \E filename \in TwoNames :
          OpenFileCmd("A", filename, HandleOf(filename), TRUE)
          /\ UNCHANGED <<opens, closes, validated, atomic, watching, last_sent>>
    \/ OpenFileCmd("B", CommittedName, HandleOf(CommittedName), TRUE)
          /\ UNCHANGED <<opens, closes, validated, atomic, watching, last_sent>>
    \/ \E s \in Sessions, filename \in TwoNames :
          CloseFileCmd(s, HandleOf(filename), TRUE)
          /\ UNCHANGED <<opens, closes, validated, atomic, watching, last_sent>>
    \/ \E filename \in TwoNames :
       \E t \in Times, ord \in WriteOrders("A", HandleOf(filename)) :
          WriteFileCmd("A", HandleOf(filename), TextAB, TextCB, t, ord, "none", TRUE)
          /\ UNCHANGED <<opens, closes, validated, atomic, watching, last_sent>>
    \/ CommitCmd("A", FALSE, FALSE, TRUE) /\ UNCHANGED <<opens, closes, validated, atomic, watching, last_sent>>
    \/ \E t \in Times :
          ExtWrite(WorkName, TextAD, t) /\ UNCHANGED <<opens, closes, validated, atomic, watching, last_sent>>
    \/ Detect
    \/ Deliver

SpecNames == InitDetect /\ [][NextNames]_vars

\* The send specification: two connected sessions open, write and close p
\* and another process rewrites it while watch_files runs; the send of a
\* command's reply can fail, which ends the session, and the send of any
\* file_updated can fail.
NextSend ==
    \/ \E s \in Sessions :
          OpenFileCmd(s, WorkName, "h1", TRUE) /\ UNCHANGED <<opens, closes, validated, atomic, watching, last_sent>>
    \/ \E s \in Sessions, sendOk \in BOOLEAN :
          CloseFileCmd(s, "h1", sendOk) /\ UNCHANGED <<opens, closes, validated, atomic, watching, last_sent>>
    \/ \E s \in Sessions : \E t \in Times, ord \in WriteOrders(s, "h1") :
          WriteFileCmd(s, "h1", TextAB, TextCB, t, ord, "none", TRUE)
          /\ UNCHANGED <<opens, closes, validated, atomic, watching, last_sent>>
    \/ \E t \in Times :
          ExtWrite(WorkName, TextAD, t) /\ UNCHANGED <<opens, closes, validated, atomic, watching, last_sent>>
    \/ Detect
    \/ \E sendOk \in BOOLEAN :
          RunTask(sendOk) /\ UNCHANGED <<opens, closes, validated, atomic, watching, last_sent>>

SpecSend == InitDetect /\ [][NextSend]_vars

\* The events of p the watcher reports.
WatchEvents == {<<change_type, WorkName>> : change_type \in ChangeTypes}

\* The watcher task takes the pending event ev; its read of the file may
\* raise OSError or UnicodeDecodeError.
WatcherTakes(ev) ==
    \E ord \in IterationOrders(file_handles, EventName(ev)), readFails \in BOOLEAN :
        HandleFileChange(ev, ord, readFails)
        /\ UNCHANGED <<opens, closes, validated, atomic, last_sent>>

\* The watcher specification: two connected sessions open and close p while
\* another process rewrites and removes it; a read of the detector can fail.
\* The watcher task, while it runs, goes through every event of the batch
\* reported to it (for ... in changes), so no event waits for ever behind
\* others, and every created send task is run.
NextWatch ==
    \/ \E s \in Sessions :
          OpenFileCmd(s, WorkName, "h1", TRUE) /\ UNCHANGED <<opens, closes, validated, atomic, watching, last_sent>>
    \/ \E s \in Sessions :
          CloseFileCmd(s, "h1", TRUE) /\ UNCHANGED <<opens, closes, validated, atomic, watching, last_sent>>
    \/ \E t \in Times :
          ExtWrite(WorkName, TextAD, t) /\ UNCHANGED <<opens, closes, validated, atomic, watching, last_sent>>
    \/ ExtDelete(WorkName) /\ UNCHANGED <<opens, closes, validated, atomic, watching, last_sent>>
    \/ \E ev \in WatchEvents : WatcherTakes(ev)
    \/ Deliver

SpecWatch ==
    /\ InitDetect /\ [][NextWatch]_vars
    /\ \A ev \in WatchEvents : SF_vars(WatcherTakes(ev))
    /\ WF_vars(Deliver)

\* What open_file reads for p when p has no entry.
ContentOnDisk == IF disk[WorkName].exists THEN disk[WorkName].content ELSE Empty

\* The last_content of a caller: what the disk holds, or the first text.
CallTexts == {ContentOnDisk, TextAB}

\* The write_file specification: two connected sessions open and close p
\* while a caller in the process writes it through FileSystem.write_file and
\* another process removes it; watch_files runs.
NextRefs ==
    \/ \E s \in Sessions :
          OpenFileCmd(s, WorkName, "h1", TRUE) /\ UNCHANGED <<opens, closes, validated, atomic, watching, last_sent>>
    \/ \E s \in Sessions :
          CloseFileCmd(s, "h1", TRUE) /\ UNCHANGED <<opens, closes, validated, atomic, watching, last_sent>>
    \/ \E last_content \in CallTexts, t \in Times,
          ord \in IterationOrders(file_handles, WorkName), fault \in Faults :
          WriteFileCall(WorkName, last_content, TextCB, t, ord, fault)
          /\ UNCHANGED <<opens, closes, validated, atomic, watching, last_sent>>
    \/ ExtDelete(WorkName) /\ UNCHANGED <<opens, closes, validated, atomic, watching, last_sent>>
    \/ Detect
    \/ Deliver

SpecRefs == InitDetect /\ [][NextRefs]_vars

\* The edit_file specification: two connected sessions open and close p
\* while a caller in the process edits it through FileSystem.edit_file and
\* another process rewrites and removes it; watch_files runs.
EditTexts == {Empty, TextAB, TextCB, TextAD}

\* An edit function whose result depends on the content it is given.
Swap == [content \in EditTexts |-> IF content = TextCB THEN TextAB ELSE TextCB]

\* An edit function that raises.
Failing == [content \in EditTexts |-> Raised]

EditFunctions == {Swap, Failing}

NextEdit ==
    \/ \E s \in Sessions :
          OpenFileCmd(s, WorkName, "h1", TRUE) /\ UNCHANGED <<opens, closes, validated, atomic, watching, last_sent>>
    \/ \E s \in Sessions :
          CloseFileCmd(s, "h1", TRUE) /\ UNCHANGED <<opens, closes, validated, atomic, watching, last_sent>>
    \/ \E edit_function \in EditFunctions, t \in Times,
          ord \in IterationOrders(file_handles, WorkName), ioFails \in BOOLEAN :
          EditFunctionCall(WorkName, edit_function, t, ord, ioFails)
          /\ UNCHANGED <<opens, closes, validated, atomic, watching, last_sent>>
    \/ \E t \in Times :
          ExtWrite(WorkName, TextAD, t) /\ UNCHANGED <<opens, closes, validated, atomic, watching, last_sent>>
    \/ ExtDelete(WorkName) /\ UNCHANGED <<opens, closes, validated, atomic, watching, last_sent>>
    \/ Detect
    \/ Deliver

SpecEdit == InitDetect /\ [][NextEdit]_vars

\* The HEAD-change specification: two connected sessions open and close the
\* committed name while watch_files runs; a client commits the working tree,
\* and other processes remove p, take p out of version control and switch
\* branches.
NextProc ==
    \/ \E s \in Sessions :
          OpenFileCmd(s, CommittedName, "h1", TRUE) /\ UNCHANGED <<opens, closes, validated, atomic, watching, last_sent>>
    \/ \E s \in Sessions :
          CloseFileCmd(s, "h1", TRUE) /\ UNCHANGED <<opens, closes, validated, atomic, watching, last_sent>>
    \/ CommitCmd("A", FALSE, FALSE, TRUE) /\ UNCHANGED <<opens, closes, validated, atomic, watching, last_sent>>
    \/ GitRmCached /\ UNCHANGED <<opens, closes, validated, atomic, watching, last_sent>>
    \/ ExtDelete(WorkName) /\ UNCHANGED <<opens, closes, validated, atomic, watching, last_sent>>
    \/ \E b \in Branches, t \in Times :
          GitCheckout(<<"ref", b>>, t) /\ UNCHANGED <<opens, closes, validated, atomic, watching, last_sent>>
    \/ Detect
    \/ Deliver

SpecProc == InitDetect /\ [][NextProc]_vars

\* The merge specification: two connected sessions open and close p and
\* write 'cb' over what they take to be 'ab', the diff library may raise
\* inside _merge_content, and another process writes 'ad'; watch_files runs.
MergeFaults == {"none", "dmp"}

NextMerge ==
    \/ \E s \in Sessions :
          OpenFileCmd(s, WorkName, "h1", TRUE) /\ UNCHANGED <<opens, closes, validated, atomic, watching, last_sent>>
    \/ \E s \in Sessions :
          CloseFileCmd(s, "h1", TRUE) /\ UNCHANGED <<opens, closes, validated, atomic, watching, last_sent>>
    \/ \E s \in Sessions : \E t \in Times, ord \in WriteOrders(s, "h1"),
          fault \in MergeFaults :
          WriteFileCmd(s, "h1", TextAB, TextCB, t, ord, fault, TRUE)
          /\ UNCHANGED <<opens, closes, validated, atomic, watching, last_sent>>
    \/ \E t \in Times :
          ExtWrite(WorkName, TextAD, t) /\ UNCHANGED <<opens, closes, validated, atomic, watching, last_sent>>
    \/ Detect
    \/ Deliver

SpecMerge == InitDetect /\ [][NextMerge]_vars

\* The convergence specification: two connected sessions open, write and
\* close p and another process rewrites it while watch_files runs; every
\* send succeeds, and last_sent keeps what each handle was sent last.
ConvTexts == {TextCB, TextAD}

NextConv ==
    \/ \E s \in Sessions :
          /\ OpenFileCmd(s, WorkName, "h1", TRUE)
          /\ last_sent' = Sent(last_sent, emitted')
          /\ UNCHANGED <<opens, closes, validated, atomic, watching>>
    \/ \E s \in Sessions :
          /\ CloseFileCmd(s, "h1", TRUE)
          /\ last_sent' = Sent(last_sent, emitted')
          /\ UNCHANGED <<opens, closes, validated, atomic, watching>>
    \/ \E s \in Sessions : \E new_content \in ConvTexts, t \in Times,
          ord \in WriteOrders(s, "h1") :
          /\ WriteFileCmd(s, "h1", TextAB, new_content, t, ord, "none", TRUE)
          /\ last_sent' = Sent(last_sent, emitted')
          /\ UNCHANGED <<opens, closes, validated, atomic, watching>>
    \/ \E t \in Times :
          /\ ExtWrite(WorkName, TextAD, t)
          /\ last_sent' = Sent(last_sent, emitted')
          /\ UNCHANGED <<opens, closes, validated, atomic, watching>>
    \/ \E ev \in events : \E ord \in IterationOrders(file_handles, EventName(ev)) :
          /\ HandleFileChange(ev, ord, FALSE)
          /\ last_sent' = Sent(last_sent, emitted')
          /\ UNCHANGED <<opens, closes, validated, atomic>>
    \/ /\ RunTask(TRUE)
       /\ last_sent' = Sent(last_sent, emitted')
       /\ UNCHANGED <<opens, closes, validated, atomic, watching>>

SpecConv == InitDetect /\ [][NextConv]_vars

\* The liveness specification: two connected sessions open and close p
\* while another process rewrites, removes and re-creates it.  Every external
\* write moves the mtime and every read of the detector succeeds; the watcher
\* task takes every event reported to it and every created send task is run.
NextLive ==
    \/ \E s \in Sessions :
          OpenFileCmd(s, WorkName, "h1", TRUE) /\ UNCHANGED <<opens, closes, validated, atomic, watching, last_sent>>
    \/ \E s \in Sessions :
          CloseFileCmd(s, "h1", TRUE) /\ UNCHANGED <<opens, closes, validated, atomic, watching, last_sent>>
    \/ \E t \in Times :
          /\ t > now
          /\ ExtWrite(WorkName, TextAD, t)
          /\ UNCHANGED <<opens, closes, validated, atomic, watching, last_sent>>
    \/ ExtDelete(WorkName) /\ UNCHANGED <<opens, closes, validated, atomic, watching, last_sent>>
    \/ Detect
    \/ Deliver

SpecLive == InitDetect /\ [][NextLive]_vars /\ WF_vars(Detect) /\ WF_vars(Deliver)

\* The balance specification: one session opens and closes the two names
\* through three handle strings and nothing else happens; opens and closes
\* count the commands that succeeded.
BalanceHandles == {"h1", "h2", "h3"}

OpenCounted(path, handle) ==
    /\ opens[path] < MaxOps
    /\ OpenFileCmd("A", path, handle, TRUE)
    /\ opens' = IF emitted'[1].type = "file_opened"
                THEN [opens EXCEPT ![path] = @ + 1] ELSE opens
    /\ closes' = closes
    /\ UNCHANGED <<validated, atomic, watching, last_sent>>

CloseCounted(handle) ==
    /\ CloseFileCmd("A", handle, TRUE)
    /\ closes' = IF emitted'[1].type = "file_closed"
                 THEN [closes EXCEPT ![open_handles["A"][handle]] = @ + 1]
                 ELSE closes
    /\ opens' = opens
    /\ UNCHANGED <<validated, atomic, watching, last_sent>>

NextBalance ==
    \/ Connect("A") /\ UNCHANGED <<opens, closes, validated, atomic, watching, last_sent>>
    \/ \E path \in Names, handle \in BalanceHandles : OpenCounted(path, handle)
    \/ \E handle \in BalanceHandles : CloseCounted(handle)

SpecBalance == Init /\ [][NextBalance]_vars

\* ------------------------------------------------------------------ claims
\* The live handles, over all sessions, that name filename.
LiveHandles(filename) ==
    {sh \in Sessions \X Handles :
        /\ sh[2] \in DOMAIN open_handles[sh[1]]
        /\ open_handles[sh[1]][sh[2]] = filename}

\* C1: in every reachable state the ref_count of each Registry entry equals
\* the number of live handles, over all sessions, that name the file, and a
\* name with a live handle has an entry.
RefCountEqualsLiveHandles ==
    \A filename \in Names :
        /\ filename \in DOMAIN files =>
               files[filename].ref_count = Cardinality(LiveHandles(filename))
        /\ LiveHandles(filename) # {} => filename \in DOMAIN files

\* C2: every entry of the Registry has ref_count >= 1 in every state between
\* operations.
RefCountPositive ==
    \A filename \in DOMAIN files : files[filename].ref_count >= 1

\* A close has just brought the count of the file to zero: the reply is
\* file_closed and the entry is gone.
LastCloseRemovedEntry ==
    /\ emitted # << >>
    /\ emitted[1].type = "file_closed"
    /\ WorkName \notin DOMAIN files
    /\ LiveHandles(WorkName) = {}

\* Session s is torn down by the step.
TornDown(s) == conn[s] = "open" /\ conn'[s] = "closed"

\* The live handles on filename that sessions other than s hold.
OtherHandles(s, filename) == {sh \in LiveHandles(filename) : sh[1] # s}

\* C4: a teardown of a session removes it from the subscriber list, leaves
\* none of its handles, and leaves unchanged the ref_count of an entry whose
\* units are all held by other sessions' handles.
TeardownKeepsOthers ==
    [][\A s \in Sessions : TornDown(s) =>
          /\ \A i \in DOMAIN watchers' : watchers'[i] # s
          /\ open_handles'[s] = EmptyMap
          /\ \A filename \in DOMAIN files :
                (/\ OtherHandles(s, filename) # {}
                 /\ files[filename].ref_count = Cardinality(OtherHandles(s, filename)))
                => /\ filename \in DOMAIN files'
                   /\ files'[filename].ref_count = files[filename].ref_count]_vars

\* The tasks the step created.
NewTasks == SubSeq(tasks', Len(tasks) + 1, Len(tasks'))

\* The step is a write (close) through handle of session s that was replied to.
Replied(s, handle, type) ==
    /\ Len(emitted') = 1
    /\ emitted'[1].type = type
    /\ emitted'[1].to = s
    /\ emitted'[1].handle = handle

TasksFor(tq, s, handle, content) ==
    {i \in DOMAIN tq : /\ tq[i].conn = s /\ tq[i].handle = handle
                        /\ tq[i].content = content}

\* C7: a write through handle h of session S creates exactly one
\* file_updated send, carrying the written content, for each other live
\* handle on the file and none for h of S, which gets file_written only.
WriteFansOutToOthers ==
    [][\A s \in Sessions : \A handle \in HandlesOf(s) :
          Replied(s, handle, "file_written") =>
              LET filename == open_handles[s][handle]
                  others == LiveHandles(filename) \ {<<s, handle>>}
              IN  /\ Len(tasks') >= Len(tasks)
                  /\ SubSeq(tasks', 1, Len(tasks)) = tasks
                  /\ Len(NewTasks) = Cardinality(others)
                  /\ \A sh \in others :
                        Cardinality(TasksFor(NewTasks, sh[1], sh[2],
                                             emitted'[1].content)) = 1
                  /\ \A i \in DOMAIN NewTasks :
                        <<NewTasks[i].conn, NewTasks[i].handle>> # <<s, handle>>]_vars

\* A write through h1 of A has queued one send for h2 of A and one for h1 of B.
WriteQueuedForBothOthers ==
    /\ Len(emitted) = 1
    /\ emitted[1].type = "file_written"
    /\ emitted[1].to = "A"
    /\ emitted[1].handle = "h1"
    /\ Len(tasks) = 2
    /\ {<<tasks[i].conn, tasks[i].handle>> : i \in DOMAIN tasks}
           = {<<"A", "h2">>, <<"B", "h1">>}

\* C8: when another session holds the same handle string, a write or close
\* through handle of s leaves that session's handle in its tables, queues the
\* file_updated of a write for it when it is on the written file, and leaves
\* its file in the Registry.
HandleStringsAreScoped ==
    [][\A s \in Sessions : \A s2 \in Sessions \ {s} : \A handle \in HandlesOf(s) :
          (/\ handle \in DOMAIN open_handles[s2]
           /\ \/ Replied(s, handle, "file_written")
              \/ Replied(s, handle, "file_closed"))
          => /\ open_handles'[s2] = open_handles[s2]
             /\ file_handles'[s2] = file_handles[s2]
             /\ (/\ Replied(s, handle, "file_written")
                 /\ open_handles[s2][handle] = open_handles[s][handle])
                => TasksFor(NewTasks, s2, handle, emitted'[1].content) # {}
             /\ open_handles[s2][handle] \in DOMAIN files
                => open_handles[s2][handle] \in DOMAIN files']_vars

\* C9: no file_updated of a write is put on a transport while the write's
\* file_written reply is still to be sent.
NoUpdateBeforeReply ==
    \A i \in DOMAIN emitted :
        emitted[i].type = "file_updated" => emitted[i].reply # "pending"

\* A file_updated of a write reaches B after the writer's reply was sent.
UpdateAfterReply ==
    /\ Len(emitted) = 1
    /\ emitted[1].type = "file_updated"
    /\ emitted[1].to = "B"
    /\ emitted[1].reply = "sent"

ReplyTypes == {"file_opened", "file_closed", "file_written", "error"}

\* The step is a command handler of s that sends its reply.
CommandOf(s) ==
    \/ BadCmd(s, TRUE)
    \/ OpenFileCmd(s, WorkName, "h1", TRUE)
    \/ CloseFileCmd(s, "h1", TRUE)
    \/ WriteOf(s)

WriteReturns(s, last_content, new_content, fault) ==
    \E t \in Times, ord \in WriteOrders(s, "h1") :
        WriteFileCmd(s, "h1", last_content, new_content, t, ord, fault, TRUE)

\* The write of the step returned content to h1 of s and left it on disk and
\* in the cache.
Written(s, filename, content) ==
    /\ emitted' = <<Frame(s, "file_written", "h1", content, "")>>
    /\ disk'[filename].exists
    /\ disk'[filename].content = content
    /\ filename \in DOMAIN files'
    /\ files'[filename].content = content

\* C5: a write whose last_content equals the cached content returns
\* new_content, and disk and cache hold new_content afterwards.
WriteWithoutConflict ==
    [][\A s \in Sessions : \A last_content \in Texts, new_content \in Texts :
          (/\ "h1" \in DOMAIN open_handles[s]
           /\ open_handles[s]["h1"] \in DOMAIN files
           /\ files[open_handles[s]["h1"]].content = last_content
           /\ WriteReturns(s, last_content, new_content, "none"))
          => Written(s, open_handles[s]["h1"], new_content)]_vars

\* A write has just returned the client's text CB, now on disk and cached.
ClientTextWritten ==
    /\ Len(emitted) = 1
    /\ emitted[1].type = "file_written"
    /\ emitted[1].content = TextCB
    /\ WorkName \in DOMAIN files
    /\ files[WorkName].content = TextCB
    /\ disk[WorkName].content = TextCB

\* What the Merger makes of a cached text and a client's change.
Merger(cached, last_content, new_content, fault) ==
    IF fault = "dmp" THEN cached
    ELSE patch_apply(patch_make(last_content, new_content), cached)

\* C6: a write whose last_content differs from the cached content returns
\* the Merger's text, and disk and cache hold that text afterwards.
WriteWithConflict ==
    [][\A s \in Sessions : \A last_content \in Texts, new_content \in Texts :
       \A fault \in {"none", "dmp"} :
          (/\ "h1" \in DOMAIN open_handles[s]
           /\ open_handles[s]["h1"] \in DOMAIN files
           /\ files[open_handles[s]["h1"]].content # last_content
           /\ WriteReturns(s, last_content, new_content, fault))
          => Written(s, open_handles[s]["h1"],
                     Merger(files[open_handles[s]["h1"]].content, last_content,
                            new_content, fault))]_vars

\* A write has just returned CD: the client's change a -> c merged into the
\* external writer's AD.
MergedTextWritten ==
    /\ Len(emitted) = 1
    /\ emitted[1].type = "file_written"
    /\ emitted[1].content = <<"c", "d">>
    /\ files[WorkName].content = <<"c", "d">>
    /\ disk[WorkName].content = <<"c", "d">>

\* C3: under opens and closes of one session, the ref_count of a name is the
\* number of its opens less the number of its closes, and the name has no
\* entry exactly when that balance is zero.
RefCountIsBalance ==
    \A filename \in Names :
        /\ filename \in DOMAIN files =>
               files[filename].ref_count = opens[filename] - closes[filename]
        /\ filename \notin DOMAIN files <=> opens[filename] = closes[filename]

\* Three opens of p were closed again and one handle was opened after them.
BalanceReturnedToZero ==
    /\ opens[WorkName] = 4
    /\ closes[WorkName] = 3
    /\ files[WorkName].ref_count = 1
    /\ opens[CommittedName] = closes[CommittedName]
    /\ opens[CommittedName] > 0
    /\ CommittedName \notin DOMAIN files

\* The detector takes the pending event ev in the step.
Handled(ev) == ev \in events /\ ev \notin events'

\* The detector takes ev in the step and every read it makes succeeds.
HandledAndRead(ev) ==
    \E ord \in IterationOrders(file_handles, EventName(ev)) :
        HandleFileChange(ev, ord, FALSE)

\* ev is an added or modified event for a tracked file that is on disk.
ModificationOf(ev) ==
    /\ ev[1] \in {"added", "modified"}
    /\ ev[2] \in DOMAIN files
    /\ ev[2] \in DiskPaths
    /\ disk[ev[2]].exists

\* The step queued exactly one file_updated send with content for each live
\* handle on filename, and nothing else.
QueuedForEveryHandle(filename, content) ==
    /\ Len(tasks') >= Len(tasks)
    /\ SubSeq(tasks', 1, Len(tasks)) = tasks
    /\ Len(NewTasks) = Cardinality(LiveHandles(filename))
    /\ \A sh \in LiveHandles(filename) :
          Cardinality(TasksFor(NewTasks, sh[1], sh[2], content)) = 1

\* C11: handling a modification event for a tracked file whose disk mtime
\* differs from the cached one sets the cached content and mtime to the disk
\* values and queues exactly one file_updated with the disk content for every
\* live handle on the name; handling an event for the file while the cached
\* mtime equals the disk mtime queues no file_updated.
ModificationIsPropagatedOnce ==
    [][\A ev \in events :
          /\ (/\ ModificationOf(ev)
               /\ files[ev[2]].mtime # disk[ev[2]].mtime
               /\ HandledAndRead(ev))
              => /\ ev[2] \in DOMAIN files'
                 /\ files'[ev[2]].content = disk[ev[2]].content
                 /\ files'[ev[2]].mtime = disk[ev[2]].mtime
                 /\ QueuedForEveryHandle(ev[2], disk[ev[2]].content)
          /\ (/\ ModificationOf(ev)
               /\ files[ev[2]].mtime = disk[ev[2]].mtime
               /\ Handled(ev))
              => tasks' = tasks]_vars

\* The detector has refreshed p from the external writer's text AD and queued
\* it for the handles of both sessions.
ExternalTextQueuedForBoth ==
    /\ events = {}
    /\ WorkName \in DOMAIN files
    /\ files[WorkName].content = TextAD
    /\ files[WorkName].mtime = disk[WorkName].mtime
    /\ Len(tasks) = 2
    /\ \A i \in DOMAIN tasks : tasks[i].content = TextAD /\ tasks[i].reply = "none"
    /\ {tasks[i].conn : i \in DOMAIN tasks} = Sessions

\* C12: handling an added or modified event for a tracked file whose disk
\* mtime equals the cached mtime sends and queues no file_updated and leaves
\* the entry's content, mtime and ref_count as they were.
UnchangedMtimeIsDropped ==
    [][\A ev \in events :
          (/\ ModificationOf(ev)
           /\ files[ev[2]].mtime = disk[ev[2]].mtime
           /\ Handled(ev))
          => /\ ev[2] \in DOMAIN files'
             /\ files'[ev[2]] = files[ev[2]]
             /\ tasks' = tasks
             /\ emitted' = << >>]_vars

\* The event of an engine write of CB has been handled: the entry still holds
\* what the write cached and nothing is queued.
OwnWriteEventDropped ==
    /\ events = {}
    /\ emitted = << >>
    /\ tasks = << >>
    /\ LiveHandles(WorkName) # {}
    /\ WorkName \in DOMAIN files
    /\ files[WorkName].content = TextCB
    /\ disk[WorkName].content = TextCB
    /\ files[WorkName].mtime = disk[WorkName].mtime

\* The non-empty texts the engine's writes of the detector specification
\* leave on disk: the client's CB, and CD when CB is merged into the external
\* AD.  No other writer of the specification writes them.
EngineTexts == {TextCB, <<"c", "d">>}

\* The step is a write of p through the engine that succeeded: a client's
\* write_file command or an edit_file call.
EngineWrites ==
    \/ \E s \in Sessions :
          /\ Replied(s, "h1", "file_written")
          /\ open_handles[s]["h1"] = WorkName
    \/ \E t \in Times, ord \in IterationOrders(file_handles, WorkName) :
          EditFileCall(WorkName, TextCB, t, ord, FALSE)

\* C13: a write of a tracked file through the engine (write_file or
\* edit_file) leaves the cached mtime and content equal to those of the file
\* on disk, and no detector step ever queues a file_updated that carries a
\* text an engine write put on disk: the writer gets no echo and the peers
\* get the write's content from the write's own fan-out only.
EngineWriteIsNotEchoed ==
    [][/\ (WorkName \in DOMAIN files /\ EngineWrites)
           => /\ WorkName \in DOMAIN files'
              /\ disk'[WorkName].exists
              /\ files'[WorkName].mtime = disk'[WorkName].mtime
              /\ files'[WorkName].content = disk'[WorkName].content
       /\ \A ev \in events :
              Handled(ev) => \A i \in DOMAIN NewTasks :
                                NewTasks[i].content \notin EngineTexts]_vars

\* B has received the file_updated of A's write after the detector handled
\* the write's event, and nothing more is queued.
PeerUpdatedOnceAfterEvent ==
    /\ events = {}
    /\ tasks = << >>
    /\ Len(emitted) = 1
    /\ emitted[1].type = "file_updated"
    /\ emitted[1].to = "B"
    /\ emitted[1].content = TextCB
    /\ emitted[1].reply = "sent"
    /\ files[WorkName].mtime = disk[WorkName].mtime

\* C14: handling a deleted event, or an added or modified event whose file
\* is no longer on disk, for a name in the Registry removes the entry and
\* queues exactly one file_updated with empty content for every live handle
\* on the name, none left out.
DeletionEvictsAndNotifies ==
    [][\A ev \in events :
          (/\ Handled(ev)
           /\ ev[2] \in DOMAIN files
           /\ ev[2] \in DiskPaths
           /\ ev[1] = "deleted" \/ ~disk[ev[2]].exists)
          => /\ ev[2] \notin DOMAIN files'
             /\ QueuedForEveryHandle(ev[2], Empty)]_vars

\* The detector has evicted p, which both sessions hold open, and queued the
\* empty content for both handles.
DeletionQueuedForBoth ==
    /\ events = {}
    /\ WorkName \notin DOMAIN files
    /\ Cardinality(LiveHandles(WorkName)) = 2
    /\ Len(tasks) = 2
    /\ \A i \in DOMAIN tasks : tasks[i].content = Empty /\ tasks[i].reply = "none"
    /\ {tasks[i].conn : i \in DOMAIN tasks} = Sessions

\* ev is an event the detector has no interest in: its path is outside the
\* repository, or under .git and neither the HEAD file nor the tracked ref
\* file, or a working-tree name that is not in the Registry.
Uninteresting(ev) ==
    \/ ev[2] = OutsidePath
    \/ ev[2] \in GitPaths /\ ev[2] # _git_head_file /\ ev[2] # head.ref_file
    \/ ev[2] \notin GitPaths /\ ev[2] # OutsidePath /\ ev[2] \notin DOMAIN files

\* C15: handling a raw event for a path outside the repository, for a
\* working-tree name that is not in the Registry, or for a path under .git
\* other than the HEAD file and the tracked ref file changes neither the
\* Registry nor the HEAD state and sends and queues nothing.
UninterestingEventsAreDropped ==
    [][\A ev \in events :
          (Handled(ev) /\ Uninteresting(ev))
          => /\ files' = files
             /\ head' = head
             /\ tasks' = tasks
             /\ emitted' = << >>]_vars

\* Another process has rewritten p while no client holds it and the detector
\* has taken the event: nothing is tracked, queued or sent.
UntrackedChangeDropped ==
    /\ events = {}
    /\ emitted = << >>
    /\ tasks = << >>
    /\ files = EmptyMap
    /\ disk[WorkName].content = TextAD
    /\ head = _resolve_head_commit(repo)

\* The content of the blob of p at HEAD, empty when HEAD has no such blob.
CommittedContent == IF git.exists THEN git.content ELSE Empty

\* C16: while watch_files runs and no event is pending, the content cached
\* for the committed name is the content of the blob of p at the current
\* HEAD, or empty when HEAD has no such blob.
CommittedMatchesHead ==
    (events = {} /\ CommittedName \in DOMAIN files)
    => files[CommittedName].content = CommittedContent

\* C17: when the detector has handled an event for the HEAD file or for the
\* tracked ref file, the stored commit and ref file are those that
\* _resolve_head_commit returns at that moment.
HeadStateIsResolved ==
    [][\A ev \in events :
          (Handled(ev) /\ (ev[2] = _git_head_file \/ ev[2] = head.ref_file))
          => head' = _resolve_head_commit(repo)]_vars

\* Session s holds a handle on the committed name.
HoldsCommitted(s) ==
    /\ "h1" \in DOMAIN open_handles[s]
    /\ open_handles[s]["h1"] = CommittedName

\* The content cached for the committed name is not that of HEAD's blob.
CacheBehindHead ==
    /\ CommittedName \in DOMAIN files
    /\ files[CommittedName].content # CommittedContent

\* A commit command has just been answered.
JustCommitted == Len(emitted) = 1 /\ emitted[1].type = "committed"

\* A file_updated with the content of HEAD's blob is put on the transport of s.
ToldCommitted(s) ==
    \E i \in DOMAIN emitted :
        /\ emitted[i].to = s
        /\ emitted[i].type = "file_updated"
        /\ emitted[i].content = CommittedContent

\* C19: while watch_files runs, a commit that leaves HEAD's blob of p
\* different from the cached committed content leads, for every session that
\* holds a handle on the committed name, to a file_updated with the new
\* content on its transport, unless the handle is closed or HEAD is moved
\* back to the cached content first.
CommitReachesHandles ==
    \A s \in Sessions :
        (JustCommitted /\ HoldsCommitted(s) /\ CacheBehindHead)
        ~> (ToldCommitted(s) \/ ~HoldsCommitted(s) \/ ~CacheBehindHead)

\* C18: a write command through a handle on the committed name writes
\* nothing to disk and leaves the content cached for the committed name as
\* it was.
CommittedIsReadOnly ==
    [][\A s \in Sessions :
          (HoldsCommitted(s) /\ WriteOf(s))
          => /\ disk' = disk
             /\ CommittedName \in DOMAIN files
                => /\ CommittedName \in DOMAIN files'
                   /\ files'[CommittedName].content = files[CommittedName].content]_vars

\* The components of a client path between its slashes.
Segments(filename) == split(filename, "/")

\* What the validator is to reject: an absolute path, a path with a "." or
\* ".." segment, and a path that differs from its syntactic normalisation.
MustReject(filename) ==
    \/ startswith(filename, <<"/">>)
    \/ \E i \in DOMAIN Segments(filename) : Segments(filename)[i] \in {Dot, DotDot}
    \/ filename # normpath(filename)

\* C20: the validator rejects a client path exactly when it is absolute, has
\* a "." or ".." segment or differs from its normalisation, and maps every
\* path it accepts to a path with at least one component below the
\* repository root.
ValidatorRejectsUnnormalised ==
    validated.result.done
    => /\ validated.result.ok <=> ~MustReject(validated.filename)
       /\ validated.result.ok => validated.result.under # << >>

\* The step is an open_file command of s for path through h1 that is
\* answered with an error.
OpenRefused(s, path) ==
    /\ OpenFileCmd(s, path, "h1", TRUE)
    /\ Len(emitted') = 1
    /\ emitted'[1].type = "error"
    /\ emitted'[1].to = s

\* C21: an open_file command through a handle string that is not live and
\* that fails (path rejected by the validator, working-tree file absent, or
\* path absent at HEAD for the committed name) is answered with one error
\* frame and leaves the Registry and both handle tables of every session as
\* they were, so the handle string is still free.
FailedOpenLeavesNothing ==
    [][\A s \in Sessions : \A path \in RefusablePaths :
          ("h1" \notin DOMAIN open_handles[s] /\ OpenRefused(s, path))
          => /\ files' = files
             /\ open_handles' = open_handles
             /\ file_handles' = file_handles
             /\ "h1" \notin DOMAIN open_handles'[s]]_vars

\* An open of A was refused because nothing is at HEAD or in the working
\* tree under the name, while B still holds the committed name it opened
\* before the removal was committed.
OpenRefusedAfterRemoval ==
    /\ emitted = <<Frame("A", "error", NoHandle, Empty, "FileNotFoundError")>>
    /\ ~git.exists
    /\ ~disk[WorkName].exists
    /\ open_handles["A"] = EmptyMap
    /\ file_handles["A"] = EmptyMap
    /\ LiveHandles(CommittedName) = {<<"B", "h1">>}
    /\ files[CommittedName].ref_count = 1

\* C22: an open_file command through a handle string that is live in the
\* session is answered with an error and leaves the session's handle table,
\* its name index and the Registry as they were.
LiveHandleIsNotReopened ==
    [][\A s \in Sessions : \A path \in OpenPaths :
          ("h1" \in DOMAIN open_handles[s] /\ OpenFileCmd(s, path, "h1", TRUE))
          => /\ Len(emitted') = 1
             /\ emitted'[1].type = "error"
             /\ open_handles' = open_handles
             /\ file_handles' = file_handles
             /\ files' = files]_vars

\* A second open through h1 of A was refused while both sessions hold p.
SecondOpenRefused ==
    /\ emitted = <<Frame("A", "error", NoHandle, Empty, "HandleInUse")>>
    /\ open_handles["A"] = [h \in {"h1"} |-> WorkName]
    /\ files[WorkName].ref_count = 2

\* The step is a close_file or write_file command of s through h1.
CloseOrWrite(s) ==
    \/ CloseFileCmd(s, "h1", TRUE)
    \/ \E last_content \in Texts \cup {Empty}, new_content \in Texts \cup {Empty} :
       \E t \in Times, ord \in WriteOrders(s, "h1") :
          WriteFileCmd(s, "h1", last_content, new_content, t, ord, "none", TRUE)

\* C23: a close_file or write_file command through a handle string the
\* session does not hold is answered with an error and changes neither the
\* Registry, nor the disk, nor a handle table, and queues nothing.
UnknownHandleIsRefused ==
    [][\A s \in Sessions :
          ("h1" \notin DOMAIN open_handles[s] /\ CloseOrWrite(s))
          => /\ Len(emitted') = 1
             /\ emitted'[1].type = "error"
             /\ files' = files
             /\ disk' = disk
             /\ open_handles' = open_handles
             /\ file_handles' = file_handles
             /\ tasks' = tasks]_vars

\* A command through h1 of A, which A had closed, was refused while B still
\* holds p: the count of p is that of B's handle.
ClosedHandleRefused ==
    /\ emitted = <<Frame("A", "error", NoHandle, Empty, "InvalidHandle")>>
    /\ open_handles["A"] = EmptyMap
    /\ LiveHandles(WorkName) = {<<"B", "h1">>}
    /\ files[WorkName].ref_count = 1

\* The step is the handling of the command data of s.
Commanded(s, data) ==
    \E t \in Times, ord \in CommandOrders(s, data) :
        handle_command(s, data, FALSE, t, ord, TRUE)

\* C24: a command that lacks a field of the protocol, or has an unknown
\* type, is answered with an error frame, changes neither the Registry nor
\* the disk, and leaves the session connected with its handles.
IncompleteCommandIsRefused ==
    [][\A s \in Sessions : \A data \in IncompleteCommands :
          Commanded(s, data)
          => /\ Len(emitted') = 1
             /\ emitted'[1].type = "error"
             /\ emitted'[1].to = s
             /\ files' = files
             /\ disk' = disk
             /\ conn' = conn
             /\ open_handles' = open_handles
             /\ file_handles' = file_handles]_vars

\* The step is the return of write_file or edit_file to its caller after a
\* system call of the atomic writer raised.
FailedReturn == atomic.pc = "return" /\ atomic.raised # "" /\ atomic'.pc = "idle"

Image(f) == [read |-> TRUE, exists |-> f.exists, content |-> f.content]

\* C26: whatever another process reads at the target between two steps of
\* the atomic writer is the complete pre-image or the complete post-image,
\* never a part of the new content and never an empty file.
ReaderSeesPreOrPostImage ==
    atomic.seen.read
    => \/ atomic.seen = Image(atomic.pre)
       \/ atomic.seen = Image(OnDisk(atomic.content, 0))

\* A reader found the pre-image of p while the temporary file held a part
\* of the new content.
PreImageReadMidWrite ==
    /\ atomic.pc = "write"
    /\ 0 < Len(atomic.temp.content)
    /\ Len(atomic.temp.content) < Len(atomic.content)
    /\ atomic.content # atomic.pre.content
    /\ atomic.seen = Image(atomic.pre)

\* C27: no two keys of the Registry in the working namespace denote the same
\* file of the working tree, so all handles on one file share one entry and
\* one cached content.
OneEntryPerFile ==
    \A f \in DOMAIN files : \A g \in DOMAIN files :
        (f # g /\ ~_is_committed_file_path(f) /\ ~_is_committed_file_path(g))
        => absolute_path(f) # absolute_path(g)

\* C28: when no write is under way and the detector has taken every pending
\* event, the cached content of every working-namespace entry of the
\* Registry is the content of its file on disk.
QuiescentCacheEqualsDisk ==
    (atomic.pc = "idle" /\ events = {})
    => \A f \in DOMAIN files :
          ~_is_committed_file_path(f)
          => /\ disk[absolute_path(f)].exists
             /\ files[f].content = disk[absolute_path(f)].content

\* The file_updated frame with content was sent to s in this step.
FileUpdatedSent(s, content) ==
    \E i \in DOMAIN emitted :
        /\ emitted[i].to = s
        /\ emitted[i].type = "file_updated"
        /\ emitted[i].content = content

\* Another process has written TextAD to p, the event is with the watcher,
\* and s holds a handle on p that has not had this content.
ExternalChangePending(s) ==
    /\ <<s, "h1">> \in LiveHandles(WorkName)
    /\ disk[WorkName].exists
    /\ disk[WorkName].content = TextAD
    /\ WorkName \in DOMAIN files => files[WorkName].content # TextAD
    /\ \E ev \in events : ev[2] = WorkName /\ ev[1] \in {"added", "modified"}

\* C29: a handle that is live on p when another process modifies or re-creates
\* p gets a file_updated with the new content, unless the handle is closed or
\* the file changes again first.
LiveHandleHearsExternalChange ==
    \A s \in Sessions :
        ExternalChangePending(s)
        ~> \/ FileUpdatedSent(s, TextAD)
           \/ <<s, "h1">> \notin LiveHandles(WorkName)
           \/ ~disk[WorkName].exists
           \/ disk[WorkName].content # TextAD

\* The Registry entry of a name, if there is one.
Entry(filename) == IF filename \in DOMAIN files THEN <<files[filename]>> ELSE << >>

\* The step sent its reply to s, as every command of s does.
ReplySentTo(s) == emitted' # << >> /\ emitted'[1].to = s /\ emitted'[1].type # "file_updated"

\* The step is a command or an external update about filename: an open, a
\* close or a write through its handle, another process writing p and the
\* detector taking that event, a commit and the detector taking an event of
\* the .git directory.
StepAbout(filename) ==
    \/ \E s \in Sessions :
          /\ ReplySentTo(s)
          /\ \/ OpenFileCmd(s, filename, HandleOf(filename), TRUE)
             \/ /\ HandleOf(filename) \in DOMAIN open_handles[s]
                /\ CloseFileCmd(s, HandleOf(filename), TRUE)
             \/ /\ HandleOf(filename) \in DOMAIN open_handles[s]
                /\ \E t \in Times, ord \in WriteOrders(s, HandleOf(filename)) :
                      WriteFileCmd(s, HandleOf(filename), TextAB, TextCB, t, ord,
                                   "none", TRUE)
    \/ /\ filename = WorkName
       /\ \/ \E t \in Times : ExtWrite(WorkName, TextAD, t)
          \/ \E ev \in events : ev[2] = WorkName /\ Handled(ev)
    \/ /\ filename = CommittedName
       /\ \/ \E s \in Sessions : ReplySentTo(s) /\ CommitCmd(s, FALSE, FALSE, TRUE)
          \/ \E ev \in events : ev[2] \in GitPaths /\ Handled(ev)

\* The step queues or sends no file_updated for a handle on filename.
NoUpdateFor(filename) ==
    /\ \A i \in DOMAIN tasks' :
          i > Len(tasks) => tasks'[i].handle # HandleOf(filename)
    /\ \A i \in DOMAIN emitted' :
          emitted'[i].type = "file_updated" => emitted'[i].handle # HandleOf(filename)

\* C30: 'p' and '@p' are independent keys of the Registry: a step that opens,
\* closes, writes or externally updates one of them leaves the other's entry
\* (content, mtime, ref_count) as it was and queues or sends no file_updated
\* for a handle on the other.
NamesAreIndependent ==
    [][\A filename \in TwoNames : \A other \in TwoNames \ {filename} :
          StepAbout(filename) => Entry(other)' = Entry(other) /\ NoUpdateFor(other)]_vars

\* Both names are open with different contents, and the detector has just
\* queued the file_updated of an external write of p for A's handle on p.
WorkUpdatedBesideCommitted ==
    /\ WorkName \in DOMAIN files
    /\ CommittedName \in DOMAIN files
    /\ files[WorkName].content = TextAD
    /\ files[CommittedName].content = TextCB
    /\ LiveHandles(CommittedName) = {<<"A", "h2">>, <<"B", "h2">>}
    /\ Len(tasks) > 0
    /\ tasks[Len(tasks)].handle = "h1"
    /\ tasks[Len(tasks)].content = TextAD

\* The working tree holds what HEAD holds: git has nothing to commit.
NothingToCommit == StagedBlob(disk) = BlobAtHead(repo)

SendFailed == tasks # << >> /\ Len(tasks') < Len(tasks) /\ emitted' = << >>

\* C32: a file_updated send that fails is swallowed: the step takes that one
\* task from the queue and changes nothing else, so the write or detector
\* step that created it stays done, no session is ended and the sends queued
\* for the other handles are still there to be run.
SendFailureIsSwallowed ==
    [][SendFailed
       => /\ tasks' = Tail(tasks)
          /\ files' = files
          /\ disk' = disk
          /\ events' = events
          /\ conn' = conn
          /\ watchers' = watchers
          /\ open_handles' = open_handles
          /\ file_handles' = file_handles]_vars

\* The detector queued the file_updated of an external write for A and for
\* B, both still holding p; A's send has failed (its task is gone, nothing
\* was sent and no handler has run since, lag being 0) and B's is still
\* queued.
OtherSendStillQueued ==
    /\ LiveHandles(WorkName) = {<<"A", "h1">>, <<"B", "h1">>}
    /\ conn = [s \in Sessions |-> "open"]
    /\ files[WorkName].content = TextAD
    /\ tasks = <<SendTask("B", "h1", TextAD, NoSource)>>
    /\ emitted = << >>
    /\ events = {}
    /\ lag = 0

\* The detector takes ev in the step and its read of the file raises.
HandledAndReadFailed(ev) ==
    \E ord \in IterationOrders(file_handles, EventName(ev)) :
        HandleFileChange(ev, ord, TRUE)

WriteFileCalled(last_content, fault) ==
    \E t \in Times, ord \in IterationOrders(file_handles, WorkName) :
        WriteFileCall(WorkName, last_content, TextCB, t, ord, fault)

\* C34: write_file leaves ref_count as it found it.  A call on a name with an
\* entry, whether it succeeds or fails, leaves the entry with the ref_count it
\* had; a call on a name without an entry leaves no entry, and when it
\* succeeds the file is on disk with the written content (the caller's, when
\* its last_content is what the disk held) and one send task per live handle
\* on the name, carrying that content, has been added to the queue.
WriteFileIsRefCountNeutral ==
    [][\A last_content \in CallTexts, fault \in Faults :
          WriteFileCalled(last_content, fault)
          => IF WorkName \in DOMAIN files
             THEN /\ WorkName \in DOMAIN files'
                  /\ files'[WorkName].ref_count = files[WorkName].ref_count
             ELSE /\ WorkName \notin DOMAIN files'
                  /\ fault = "io" => disk' = disk /\ tasks' = tasks
                  /\ fault # "io"
                     => /\ disk'[WorkName].exists
                        /\ last_content = ContentOnDisk
                           => disk'[WorkName].content = TextCB
                        /\ Len(NewTasks) = Cardinality(LiveHandles(WorkName))
                        /\ \A i \in DOMAIN NewTasks :
                              /\ <<NewTasks[i].conn, NewTasks[i].handle>>
                                    \in LiveHandles(WorkName)
                              /\ NewTasks[i].content = disk'[WorkName].content
                        /\ \A i, j \in DOMAIN NewTasks :
                              NewTasks[i] = NewTasks[j] => i = j]_vars

\* p was removed, its entry was evicted while A held it, and a write_file
\* call then created the file again: p is on disk with the caller's content,
\* has no entry, and the one notification for A's handle is queued.
WrittenWithoutEntry ==
    /\ WorkName \notin DOMAIN files
    /\ LiveHandles(WorkName) = {<<"A", "h1">>}
    /\ disk[WorkName].exists
    /\ disk[WorkName].content = TextCB
    /\ tasks = <<SendTask("A", "h1", TextCB, NoSource)>>
    /\ events = {<<"added", WorkName>>}

\* The step is an edit_file call on p.
EditFileCalled(edit_function, ioFails) ==
    \E t \in Times, ord \in IterationOrders(file_handles, WorkName) :
        EditFunctionCall(WorkName, edit_function, t, ord, ioFails)

\* The content edit_file gives to edit_function: the cached content of an
\* entry, the content on disk otherwise.
CurrentContent ==
    IF WorkName \in DOMAIN files THEN files[WorkName].content ELSE ContentOnDisk

\* One new send task for each live handle of p, each carrying content.
FannedOutToAll(content) ==
    /\ Len(NewTasks) = Cardinality(LiveHandles(WorkName))
    /\ \A sh \in LiveHandles(WorkName) :
          \E i \in DOMAIN NewTasks :
              NewTasks[i] = SendTask(sh[1], sh[2], content, NoSource)

HeadProcedureRuns(ev) ==
    /\ Handled(ev)
    /\ ev[2] = _git_head_file \/ ev[2] = head.ref_file

\* C36: when the detector runs the HEAD-change procedure and the resolved
\* commit is the stored one, the Registry and the queue stay as they are;
\* otherwise the entry of the committed name is kept with its ref_count, its
\* content is that of the blob of p at the new HEAD (empty when the new HEAD
\* has no such blob), and a file_updated for each live handle is queued when
\* the content changed and none when it did not.
HeadChangeRefreshesCommitted ==
    [][\A ev \in events :
          HeadProcedureRuns(ev)
          => IF _resolve_head_commit(repo).commit = head.commit
             THEN files' = files /\ tasks' = tasks
             ELSE CommittedName \in DOMAIN files
                  => /\ CommittedName \in DOMAIN files'
                     /\ files'[CommittedName].ref_count
                           = files[CommittedName].ref_count
                     /\ files'[CommittedName].content = CommittedContent
                     /\ IF files'[CommittedName].content
                              # files[CommittedName].content
                        THEN QueuedForEveryHandle(CommittedName, CommittedContent)
                        ELSE tasks' = tasks]_vars

\* The step is s's write of 'cb' over 'ab' with the library raising in the
\* merge.
WrittenWithMergeFailure(s) ==
    \E t \in Times, ord \in WriteOrders(s, "h1") :
        WriteFileCmd(s, "h1", TextAB, TextCB, t, ord, "dmp", TRUE)

\* C37: when the diff library raises during a conflicting write, what is
\* written to disk, kept in the entry, returned in file_written and carried
\* by every file_updated the write queues is the content that was cached
\* before the write.
MergeFailureKeepsCurrent ==
    [][\A s \in Sessions :
          WrittenWithMergeFailure(s)
          => LET current_content == files[WorkName].content
             IN  /\ disk'[WorkName].exists
                 /\ disk'[WorkName].content = current_content
                 /\ files'[WorkName].content = current_content
                 /\ Len(emitted') = 1
                 /\ emitted'[1].to = s
                 /\ emitted'[1].type = "file_written"
                 /\ emitted'[1].content = current_content
                 /\ \A i \in DOMAIN NewTasks :
                       NewTasks[i].content = current_content]_vars

\* A's write of 'cb' over 'ab' met the cached 'ad' and the library raised:
\* A is answered file_written with 'ad', which is what disk and entry hold
\* (a merge that does not raise gives 'cd').
CurrentContentWritten ==
    /\ Len(emitted) = 1
    /\ emitted[1].to = "A"
    /\ emitted[1].type = "file_written"
    /\ emitted[1].content = TextAD
    /\ disk[WorkName].content = TextAD
    /\ files[WorkName].content = TextAD

\* C38: every file_updated put on a transport names a handle that the
\* receiving session holds at that moment, so none follows the file_closed
\* of its handle.
UpdatesOnlyForLiveHandles ==
    \A i \in DOMAIN emitted :
        emitted[i].type = "file_updated"
        => emitted[i].handle \in DOMAIN open_handles[emitted[i].to]

\* The step leaves the queued sends in their order: it takes the oldest or
\* adds behind the newest.
QueueKeepsOrder ==
    \/ tasks # << >> /\ tasks' = Tail(tasks)
    \/ Len(tasks') >= Len(tasks) /\ SubSeq(tasks', 1, Len(tasks)) = tasks

AllProcessed == events = {} /\ tasks = << >>

\* C40: when nothing is left to process, what every live handle on a name
\* with an entry was sent last, by file_opened, file_written or file_updated,
\* is the cached content of the entry.
HandlesConverge ==
    AllProcessed
    => \A s \in Sessions : \A handle \in DOMAIN open_handles[s] :
          open_handles[s][handle] \in DOMAIN files
          => last_sent[s][handle] = files[open_handles[s][handle]].content

====
